---- MODULE Spec2Model ----
(***************************************************************************)
(* Model of the transactional saga engine of src/src/sagas/core.py:        *)
(* SagaOrchestrator.run and SagaOrchestrator._rollback, called by several  *)
(* callers (threads) on one orchestrator instance.  Step indices are the   *)
(* 0-based indices of the source.                                          *)
(***************************************************************************)
EXTENDS Integers, Sequences, FiniteSets, TLC

\* ---------------------------------------------------------------- bounds
NumSteps == 4
NumThreads == 2
NumPortfolios == 1
MaxAmount == 2
MaxTrades == 2
MaxDirect == 2
MaxLots == 2
\* SagaOrchestrator instances created in one process, and runs made on them
MaxOrchestrators == 2
MaxRuns == 3

StepIdx == 0 .. (NumSteps - 1)
Threads == 1 .. NumThreads
\* error texts a step's execute raises, and the one its compensate raises
Msgs == {"m1", "m2"}
CompMsgs == {"c1"}

\* TransactionStep.name of the step at index i (unique within the list)
StepName(i) == "Step" \o ToString(i + 1)

\* ids a caller can put in ctx["transaction_id"]; "" asks for a derived id
SuppliedIds == {"tx1"}

\* A Python dict is the sequence of its items in insertion order; the keys of
\* one dict are distinct.  Two dicts are equal (==) when they hold the same
\* items, in whatever order.
Items(d) == {d[n] : n \in 1 .. Len(d)}
DictEq(d1, d2) == Items(d1) = Items(d2)
\* two lists of dicts are equal when they are equal item by item
ListEq(l1, l2) ==
    /\ Len(l1) = Len(l2)
    /\ \A n \in 1 .. Len(l1) : DictEq(l1[n], l2[n])

\* the portfolios of the callers of the engine: {'stocks': n}
PortfolioOf(n) == <<<<"stocks", n>>>>
Portfolios == {PortfolioOf(n) : n \in 1 .. NumPortfolios}

\* ", ".join(parts)
RECURSIVE Join(_)
Join(parts) ==
    IF parts = <<>> THEN ""
    ELSE IF Len(parts) = 1 THEN parts[1]
    ELSE parts[1] \o ", " \o Join(Tail(parts))

\* str() of a dict with string keys and integer values: the items in
\* insertion order
str_dict(d) ==
    "{" \o Join([n \in 1 .. Len(d) |-> "'" \o d[n][1] \o "': " \o ToString(d[n][2])]) \o "}"

\* str() of a list of such dicts
str_list(l) == "[" \o Join([n \in 1 .. Len(l) |-> str_dict(l[n])]) \o "]"

\* ctx.get(key, default)
Get(c, key, default) == IF key \in DOMAIN c THEN c[key] ELSE default

\* hashlib.sha256(content.encode()).hexdigest()[:16]: a digest of the content
\* string and of nothing else (distinct contents are given distinct digests)
hash_digest(content) == "#" \o content

\* SagaOrchestrator.generate_transaction_id
generate_transaction_id(c) ==
    "saga_" \o hash_digest(str_dict(Get(c, "portfolio_data", <<>>))
                            \o str_list(Get(c, "proposed_trades", <<>>)))

TxIds == SuppliedIds \cup {generate_transaction_id([portfolio_data |-> p]) : p \in Portfolios}

\* a key that is not in the _idempotency_store dict
Absent == "absent"
None == "None"
NoIndex == -1

VARIABLES
    is_pivot,           \* self.steps[i].is_pivot
    on_step_start,      \* a start callback is registered
    on_step_complete,   \* a completion callback is registered
    store,              \* self._idempotency_store
    pc,                 \* position of each caller inside run
    ctx,                \* the context of each call
    transaction_id,     \* local transaction_id of run
    logs,               \* local logs of run
    i,                  \* loop index of the forward loop / of the walk
    failed_at_index,    \* local failed_at_index of run (NoIndex for None)
    rollback_logs,      \* local logs of _rollback
    result,             \* the SagaResult the call returned
    events,             \* per call: the invocations made on steps and callbacks
    passes,             \* per id: the runs that got past the idempotency check
    returned_status,    \* per id: the status its last non-duplicate run returned
    id_calls,           \* the calls made to generate_transaction_id
    rb_ctx,             \* Rebalance: the context of the run (a dict: key -> value)
    rb_pc,              \* Rebalance: position of the run
    rb_i,               \* Rebalance: index of the forward loop / of the walk
    rb_now,             \* Rebalance: ticks of datetime.now() consumed so far
    rb_result,          \* Rebalance: the SagaResult returned
    rb_calls,           \* Rebalance: the execute/compensate calls made, in order
    tlh_ctx,            \* TaxLossHarvesting: the context of the run (a dict)
    tlh_pc,             \* TaxLossHarvesting: position of the run
    tlh_now,            \* TaxLossHarvesting: ticks of datetime.now() consumed so far
    tlh_i,              \* TaxLossHarvesting: index of the forward loop / of the walk
    tlh_result,         \* TaxLossHarvesting: the SagaResult returned
    tlh_calls,          \* TaxLossHarvesting: the execute/compensate calls made, in order
    compared,           \* is_substantially_identical: the tickers compared and the answers
    orchestrators,      \* per SagaOrchestrator instance: its _idempotency_store (a dict)
    orch_runs           \* the runs made on the instances, in order

vars == <<is_pivot, on_step_start, on_step_complete, store, pc, ctx,
          transaction_id, logs, i, failed_at_index,
          rollback_logs, result, events, passes, returned_status, id_calls,
          rb_ctx, rb_pc, rb_i, rb_now, rb_result, rb_calls,
          tlh_ctx, tlh_pc, tlh_now, tlh_i, tlh_result, tlh_calls,
          compared, orchestrators, orch_runs>>

\* the variables of the engine
engine == <<is_pivot, on_step_start, on_step_complete, store, pc, ctx,
            transaction_id, logs, i, failed_at_index,
            rollback_logs, result, events, passes, returned_status>>

\* the variables of the other specifications, which the engine leaves alone
rebalance == <<rb_ctx, rb_pc, rb_i, rb_now, rb_result, rb_calls>>
harvesting == <<tlh_ctx, tlh_pc, tlh_now, tlh_i, tlh_result, tlh_calls>>
identity == <<compared>>
instances == <<orchestrators, orch_runs>>
others == <<id_calls, rebalance, harvesting, identity, instances>>

config == <<is_pivot, on_step_start, on_step_complete>>

StepLog(name, status, error) == [step_name |-> name, status |-> status, error |-> error]

NoResult == [status |-> None, transaction_id |-> None, logs |-> <<>>,
             executed_steps |-> <<>>, error |-> None]

EmptyCtx == [transaction_id |-> "", portfolio_data |-> PortfolioOf(1),
             executed_steps |-> <<>>, logs |-> <<>>, error |-> None]

Event(op, step, arg) == [op |-> op, step |-> step, arg |-> arg]

Init ==
    /\ is_pivot \in [StepIdx -> BOOLEAN]
    /\ on_step_start \in BOOLEAN
    /\ on_step_complete \in BOOLEAN
    /\ store = [id \in TxIds |-> Absent]
    /\ pc = [t \in Threads |-> "idle"]
    /\ ctx = [t \in Threads |-> EmptyCtx]
    /\ transaction_id = [t \in Threads |-> None]
    /\ logs = [t \in Threads |-> <<>>]
    /\ i = [t \in Threads |-> 0]
    /\ failed_at_index = [t \in Threads |-> NoIndex]
    /\ rollback_logs = [t \in Threads |-> <<>>]
    /\ result = [t \in Threads |-> NoResult]
    /\ events = [t \in Threads |-> <<>>]
    /\ passes = [id \in TxIds |-> 0]
    /\ returned_status = [id \in TxIds |-> None]
    /\ id_calls = <<>>
    /\ rb_ctx = <<>>
    /\ rb_pc = "idle"
    /\ rb_i = 0
    /\ rb_now = 0
    /\ rb_result = NoResult
    /\ rb_calls = <<>>
    /\ tlh_ctx = <<>>
    /\ tlh_pc = "idle"
    /\ tlh_now = 0
    /\ tlh_i = 0
    /\ tlh_result = NoResult
    /\ tlh_calls = <<>>
    /\ compared = <<>>
    /\ orchestrators = <<>>
    /\ orch_runs = <<>>

\* ------------------------------------------------------------ helpers
\* mutant: the duplicate check never fires
is_duplicate_never(id) == FALSE

\* SagaOrchestrator.is_duplicate
is_duplicate(id) == store[id] # Absent

\* SagaOrchestrator.get_status
get_status(id) == store[id]

\* mutant: the id is recorded with the initial status
MarkedStatusPending == "PENDING"

\* the status run records at "Mark as executing"
MarkedStatus == "EXECUTING"

\* mutant: the start callback is given the 0-based index
StartArgsZeroBased(idx) == <<StepName(idx), idx, NumSteps>>

\* run: self.on_step_start(step.name, i + 1, len(self.steps))
StartArgs(idx) == <<StepName(idx), idx + 1, NumSteps>>

\* an optional callback is invoked only when it is registered
Fire(registered, ev) == IF registered THEN <<ev>> ELSE <<>>

\* mutant: the completion callback is told COMPENSATED whatever compensate did
CompensationCallbackAlways(registered, idx, raised) ==
    Fire(registered, Event("on_step_complete", idx, "COMPENSATED"))

\* _rollback: on_step_complete(step.name, COMPENSATED) is the last statement
\* of the try branch; the except branch calls nothing
CompensationCallback(registered, idx, raised) ==
    IF raised THEN <<>>
    ELSE Fire(registered, Event("on_step_complete", idx, "COMPENSATED"))

\* mutant: the outcome entry is appended after the RUNNING entry
ReplaceLastAppend(ls, entry) == Append(ls, entry)

\* logs[-1] = entry
ReplaceLast(ls, entry) == [ls EXCEPT ![Len(ls)] = entry]

\* mutants: the loop leaves out the last step; the except branch does not break
LoopExitEarly(idx, raised) == raised \/ idx + 1 >= NumSteps - 1
LoopExitNoBreak(idx, raised) == idx + 1 >= NumSteps

\* the forward loop ends on the break of the except branch or after the last step
LoopExit(idx, raised) == raised \/ idx + 1 >= NumSteps

\* run: "if failed_at_index is None"
AllSucceeded(failed) == failed = NoIndex

\* mutant: the walk starts at the last step of the list
RollbackFirstLast(failed_index) == NumSteps - 1

\* mutant: the walk starts at the failed step itself
RollbackFirstIncl(failed_index) == failed_index

\* _rollback: range(failed_index - 1, -1, -1)
RollbackFirst(failed_index) == failed_index - 1

\* mutant: the walk does not move on to the previous step
RollbackNextSame(idx) == idx

\* _rollback: the next index of range(failed_index - 1, -1, -1)
RollbackNext(idx) == idx - 1

\* mutant: the walk ignores pivots
StopsAtPivotNever(idx) == FALSE

\* _rollback: "if step.is_pivot" ends the walk
StopsAtPivot(idx) == is_pivot[idx]

\* mutant: a failed compensation ends the walk
WalkStopsOnFailure(idx, raised) == IF raised THEN NoIndex ELSE idx - 1

\* _rollback: the except branch only replaces the log entry; the walk goes on
WalkAfterCompensate(idx, raised) == RollbackNext(idx)

\* mutant: the rolled-back result carries no error
ResultErrorNone(c) == None

\* run: error=ctx.get("error") of the rolled-back result
ResultError(c) == c.error

\* mutant: the rolled-back run is recorded and returned as FAILED
final_status_failed == "FAILED"

\* run: final_status = SagaStatus.ROLLED_BACK
final_status == "ROLLED_BACK"

\* mutant: the tracking keys are left as the caller passed them
TrackingResetNever(c, duplicate) == c

\* mutant: the tracking keys are reset before the idempotency check
TrackingResetAlways(c, duplicate) == [c EXCEPT !.executed_steps = <<>>, !.logs = <<>>]

\* run: "Initialize tracking" comes after the return of the duplicate branch
TrackingReset(c, duplicate) ==
    IF duplicate THEN c ELSE [c EXCEPT !.executed_steps = <<>>, !.logs = <<>>]

\* mutant: the walk is not closed with a marker
CloseRollbackLogUnmarked(rls) == rls

\* _rollback: the ROLLBACK_COMPLETE entry appended after the walk
CloseRollbackLog(rls) == Append(rls, StepLog("ROLLBACK_COMPLETE", "COMPENSATED", None))

\* mutant: the rollback entries are not added to the result's log
ResultLogsForwardOnly(ls, rls) == ls

\* run: logs.extend(rollback_logs)
ResultLogs(ls, rls) == ls \o rls

\* contexts a caller builds: an id of its own or "" (derive one)
FreshCtxs ==
    {[transaction_id |-> id, portfolio_data |-> p, executed_steps |-> <<>>,
      logs |-> <<>>, error |-> None] :
        id \in SuppliedIds \cup {""}, p \in Portfolios}

ResetLocals(t) ==
    /\ logs' = [logs EXCEPT ![t] = <<>>]
    /\ i' = [i EXCEPT ![t] = 0]
    /\ failed_at_index' = [failed_at_index EXCEPT ![t] = NoIndex]
    /\ rollback_logs' = [rollback_logs EXCEPT ![t] = <<>>]

\* ------------------------------------------------------------ run
\* run, up to the idempotency check: logs = [], the transaction id.
\* The caller passes a context it built, or the context of its previous call.
Call(t) ==
    /\ UNCHANGED others
    /\ pc[t] \in {"idle", "returned"}
    /\ \E c \in FreshCtxs \cup (IF pc[t] = "returned" THEN {ctx[t]} ELSE {}) :
         LET id == IF c.transaction_id = "" THEN generate_transaction_id(c)
                   ELSE c.transaction_id
         IN /\ ctx' = [ctx EXCEPT ![t] = [c EXCEPT !.transaction_id = id]]
            /\ transaction_id' = [transaction_id EXCEPT ![t] = id]
    /\ ResetLocals(t)
    /\ result' = [result EXCEPT ![t] = NoResult]
    /\ events' = [events EXCEPT ![t] = <<>>]
    /\ pc' = [pc EXCEPT ![t] = "is_duplicate"]
    /\ UNCHANGED <<config, store, passes, returned_status>>

\* "if self.is_duplicate(transaction_id)"; when it is not, "Initialize tracking"
IsDuplicate(t) ==
    /\ UNCHANGED others
    /\ pc[t] = "is_duplicate"
    /\ pc' = [pc EXCEPT ![t] = IF is_duplicate(transaction_id[t]) THEN "get_status"
                                ELSE "mark_executing"]
    /\ ctx' = [ctx EXCEPT ![t] = TrackingReset(@, is_duplicate(transaction_id[t]))]
    /\ passes' = [passes EXCEPT ![transaction_id[t]] =
                     IF is_duplicate(transaction_id[t]) THEN @ ELSE @ + 1]
    /\ UNCHANGED <<config, store, transaction_id, logs, i,
                   failed_at_index, rollback_logs, result, events, returned_status>>

\* the duplicate branch: the IDEMPOTENCY_CHECK entry, return
GetStatus(t) ==
    /\ UNCHANGED others
    /\ pc[t] = "get_status"
    /\ LET existing_status == get_status(transaction_id[t])
           ls == Append(logs[t], StepLog("IDEMPOTENCY_CHECK", "SKIPPED", None))
       IN result' = [result EXCEPT ![t] =
                        [status |-> existing_status,
                         transaction_id |-> transaction_id[t],
                         logs |-> ls,
                         executed_steps |-> ctx[t].executed_steps,
                         error |-> "Duplicate transaction"]]
    /\ ResetLocals(t)
    /\ pc' = [pc EXCEPT ![t] = "returned"]
    /\ UNCHANGED <<config, store, ctx, transaction_id, events, passes, returned_status>>

\* "self._idempotency_store[transaction_id] = SagaStatus.EXECUTING"
MarkExecuting(t) ==
    /\ UNCHANGED others
    /\ pc[t] = "mark_executing"
    /\ store' = [store EXCEPT ![transaction_id[t]] = MarkedStatus]
    /\ failed_at_index' = [failed_at_index EXCEPT ![t] = NoIndex]
    /\ i' = [i EXCEPT ![t] = 0]
    /\ pc' = [pc EXCEPT ![t] = IF NumSteps > 0 THEN "step_start" ELSE "after_loop"]
    /\ UNCHANGED <<config, ctx, transaction_id, logs,
                   rollback_logs, result, events, passes, returned_status>>

\* loop body before the try: on_step_start, the RUNNING entry
StepStart(t) ==
    /\ UNCHANGED others
    /\ pc[t] = "step_start"
    /\ events' = [events EXCEPT ![t] =
                    @ \o Fire(on_step_start, Event("on_step_start", i[t], StartArgs(i[t])))]
    /\ logs' = [logs EXCEPT ![t] = Append(@, StepLog(StepName(i[t]), "RUNNING", None))]
    /\ pc' = [pc EXCEPT ![t] = "execute"]
    /\ UNCHANGED <<config, store, ctx, transaction_id, i,
                   failed_at_index, rollback_logs, result, passes, returned_status>>

\* the try/except around step.execute
Execute(t) ==
    /\ UNCHANGED others
    /\ pc[t] = "execute"
    /\ \E outcome \in {"ok"} \cup Msgs :
         LET raised == outcome # "ok" IN
         /\ IF ~raised
            THEN /\ ctx' = [ctx EXCEPT ![t].executed_steps = Append(@, StepName(i[t]))]
                 /\ logs' = [logs EXCEPT ![t] =
                               ReplaceLast(@, StepLog(StepName(i[t]), "SUCCESS", None))]
                 /\ events' = [events EXCEPT ![t] =
                               @ \o <<Event("execute", i[t], outcome)>>
                                 \o Fire(on_step_complete,
                                         Event("on_step_complete", i[t], "SUCCESS"))]
                 /\ UNCHANGED failed_at_index
            ELSE /\ ctx' = [ctx EXCEPT ![t].error = outcome]
                 /\ logs' = [logs EXCEPT ![t] =
                               ReplaceLast(@, StepLog(StepName(i[t]), "FAILED", outcome))]
                 /\ events' = [events EXCEPT ![t] =
                               @ \o <<Event("execute", i[t], outcome)>>
                                 \o Fire(on_step_complete,
                                         Event("on_step_complete", i[t], "FAILED"))]
                 /\ failed_at_index' = [failed_at_index EXCEPT ![t] = i[t]]
         /\ IF LoopExit(i[t], raised)
            THEN /\ pc' = [pc EXCEPT ![t] = "after_loop"]
                 /\ UNCHANGED i
            ELSE /\ pc' = [pc EXCEPT ![t] = "step_start"]
                 /\ i' = [i EXCEPT ![t] = @ + 1]
    /\ UNCHANGED <<config, store, transaction_id, rollback_logs, result, passes, returned_status>>

\* "if failed_at_index is None": record SUCCESS and return
FinalizeSuccess(t) ==
    /\ UNCHANGED others
    /\ pc[t] = "after_loop"
    /\ AllSucceeded(failed_at_index[t])
    /\ store' = [store EXCEPT ![transaction_id[t]] = "SUCCESS"]
    /\ result' = [result EXCEPT ![t] =
                    [status |-> "SUCCESS",
                     transaction_id |-> transaction_id[t],
                     logs |-> logs[t],
                     executed_steps |-> ctx[t].executed_steps,
                     error |-> None]]
    /\ returned_status' = [returned_status EXCEPT ![transaction_id[t]] = "SUCCESS"]
    /\ ResetLocals(t)
    /\ pc' = [pc EXCEPT ![t] = "returned"]
    /\ UNCHANGED <<config, ctx, transaction_id, events, passes>>

\* ------------------------------------------------------------ _rollback
\* call of _rollback: the ROLLBACK_START entry, the first index of the walk
RollbackStart(t) ==
    /\ UNCHANGED others
    /\ pc[t] = "after_loop"
    /\ ~AllSucceeded(failed_at_index[t])
    /\ rollback_logs' = [rollback_logs EXCEPT ![t] =
                           <<StepLog("ROLLBACK_START", "COMPENSATING", None)>>]
    /\ i' = [i EXCEPT ![t] = RollbackFirst(failed_at_index[t])]
    /\ pc' = [pc EXCEPT ![t] =
                IF RollbackFirst(failed_at_index[t]) >= 0 THEN "rollback_walk"
                ELSE "rollback_complete"]
    /\ UNCHANGED <<config, store, ctx, transaction_id, logs,
                   failed_at_index, result, events, passes, returned_status>>

\* one iteration of the walk
RollbackStep(t) ==
    /\ UNCHANGED others
    /\ pc[t] = "rollback_walk"
    /\ IF StopsAtPivot(i[t])
       THEN /\ rollback_logs' = [rollback_logs EXCEPT ![t] =
                                   Append(@, StepLog(StepName(i[t]), "SKIPPED", None))]
            /\ pc' = [pc EXCEPT ![t] = "rollback_complete"]
            /\ UNCHANGED <<i, events>>
       ELSE \E outcome \in {"ok"} \cup CompMsgs :
            LET raised == outcome # "ok"
                nxt == WalkAfterCompensate(i[t], raised)
            IN
            /\ IF ~raised
               THEN /\ rollback_logs' = [rollback_logs EXCEPT ![t] =
                                   Append(@, StepLog(StepName(i[t]), "COMPENSATED", None))]
                    /\ events' = [events EXCEPT ![t] =
                                   @ \o <<Event("compensate", i[t], outcome)>>
                                     \o CompensationCallback(on_step_complete, i[t], raised)]
               ELSE /\ rollback_logs' = [rollback_logs EXCEPT ![t] =
                                   Append(@, StepLog(StepName(i[t]), "FAILED", outcome))]
                    /\ events' = [events EXCEPT ![t] =
                                   @ \o <<Event("compensate", i[t], outcome)>>
                                     \o CompensationCallback(on_step_complete, i[t], raised)]
            /\ i' = [i EXCEPT ![t] = nxt]
            /\ pc' = [pc EXCEPT ![t] =
                        IF nxt >= 0 THEN "rollback_walk" ELSE "rollback_complete"]
    /\ UNCHANGED <<config, store, ctx, transaction_id, logs,
                   failed_at_index, result, passes, returned_status>>

\* end of _rollback (ROLLBACK_COMPLETE) and the rest of run: logs.extend,
\* record ROLLED_BACK, return
RollbackComplete(t) ==
    /\ UNCHANGED others
    /\ pc[t] = "rollback_complete"
    /\ store' = [store EXCEPT ![transaction_id[t]] = final_status]
    /\ result' = [result EXCEPT ![t] =
                    [status |-> final_status,
                     transaction_id |-> transaction_id[t],
                     logs |-> ResultLogs(logs[t], CloseRollbackLog(rollback_logs[t])),
                     executed_steps |-> ctx[t].executed_steps,
                     error |-> ResultError(ctx[t])]]
    /\ returned_status' = [returned_status EXCEPT ![transaction_id[t]] = final_status]
    /\ ResetLocals(t)
    /\ pc' = [pc EXCEPT ![t] = "returned"]
    /\ UNCHANGED <<config, ctx, transaction_id, events, passes>>

\* the caller drops the result and the context of its last call
Discard(t) ==
    /\ UNCHANGED others
    /\ pc[t] = "returned"
    /\ pc' = [pc EXCEPT ![t] = "idle"]
    /\ ctx' = [ctx EXCEPT ![t] = EmptyCtx]
    /\ transaction_id' = [transaction_id EXCEPT ![t] = None]
    /\ result' = [result EXCEPT ![t] = NoResult]
    /\ events' = [events EXCEPT ![t] = <<>>]
    /\ UNCHANGED <<config, store, logs, i, failed_at_index,
                   rollback_logs, passes, returned_status>>

\* ------------------------------------------------------------ specifications
Step(t) ==
    \/ Call(t)
    \/ Discard(t)
    \/ IsDuplicate(t)
    \/ GetStatus(t)
    \/ MarkExecuting(t)
    \/ StepStart(t)
    \/ Execute(t)
    \/ FinalizeSuccess(t)
    \/ RollbackStart(t)
    \/ RollbackStep(t)
    \/ RollbackComplete(t)

\* one caller: run calls on the orchestrator do not overlap
Caller == 1

Next == Step(Caller)

Spec == Init /\ [][Next]_vars

\* callers on several threads: run calls may overlap.  The races are over the
\* idempotency store, so one step list (a pivot at index 1, both callbacks
\* registered) stands for all.
InitThreads ==
    /\ Init
    /\ is_pivot = [s \in StepIdx |-> s = 1]
    /\ on_step_start
    /\ on_step_complete

NextThreads == \E t \in Threads : Step(t)

SpecThreads == InitThreads /\ [][NextThreads]_vars

\* run is straight-line code on the caller's thread: once called it keeps
\* taking its next step, given that each execute and compensate returns or
\* raises.  Whether run is called again is up to the caller.
RunStep(t) ==
    \/ IsDuplicate(t)
    \/ GetStatus(t)
    \/ MarkExecuting(t)
    \/ StepStart(t)
    \/ Execute(t)
    \/ FinalizeSuccess(t)
    \/ RollbackStart(t)
    \/ RollbackStep(t)
    \/ RollbackComplete(t)

SpecFair == Init /\ [][Next]_vars /\ WF_vars(RunStep(Caller))

TypeOK ==
    /\ \A t \in Threads : pc[t] \in {"idle", "returned", "is_duplicate", "get_status", "mark_executing",
                                     "step_start", "execute", "after_loop",
                                     "rollback_walk", "rollback_complete"}
    /\ \A id \in TxIds : store[id] \in {Absent, "EXECUTING", "SUCCESS", "ROLLED_BACK"}

\* ------------------------------------------------------------ properties
Range(sq) == {sq[n] : n \in 1 .. Len(sq)}
StepsOf(sq) == [n \in 1 .. Len(sq) |-> sq[n].step]
IsExecute(e) == e.op = "execute"
IsCompensate(e) == e.op = "compensate"
ExecOf(t) == SelectSeq(events[t], IsExecute)
CompOf(t) == SelectSeq(events[t], IsCompensate)

\* a, a-1, ..., b  and  a, a+1, ..., b
Down(a, b) == [n \in 1 .. (a - b + 1) |-> a - n + 1]
Up(a, b) == [n \in 1 .. (b - a + 1) |-> a + n - 1]
AllNames == [n \in 1 .. NumSteps |-> StepName(n - 1)]

Returned(t) == pc[t] = "returned"
IsDuplicateResult(t) == result[t].error = "Duplicate transaction"
Ran(t) == Returned(t) /\ ~IsDuplicateResult(t)

\* the steps whose execute raised in the call of t
FailedSteps(t) == {e.step : e \in {x \in Range(ExecOf(t)) : x.arg # "ok"}}
FailedAtStep(t, k) == FailedSteps(t) = {k}
FailureMsg(t, k) == (CHOOSE e \in Range(ExecOf(t)) : e.step = k /\ e.arg # "ok").arg

PivotBelow(k) == \E p \in 0 .. (k - 1) : is_pivot[p]
HighestPivotBelow(k) ==
    CHOOSE p \in 0 .. (k - 1) : is_pivot[p] /\ \A q \in (p + 1) .. (k - 1) : ~is_pivot[q]

\* C1: when every execute of a run on a new id succeeds, the run returns SUCCESS,
\* executed_steps is the list of step names in order, execute was invoked once
\* per step in list order and compensate was never invoked.
C1_AllSucceed ==
    \A t \in Threads :
        (Ran(t) /\ FailedSteps(t) = {}) =>
            /\ result[t].status = "SUCCESS"
            /\ result[t].executed_steps = AllNames
            /\ StepsOf(ExecOf(t)) = Up(0, NumSteps - 1)
            /\ CompOf(t) = <<>>

C1_Witness ==
    /\ Ran(Caller) /\ FailedSteps(Caller) = {}
    /\ Len(ExecOf(Caller)) = NumSteps
    /\ result[Caller].status = "SUCCESS"

\* C2: when the execute of step k fails and no step before k is a pivot,
\* compensate is invoked on k-1, k-2, ..., 0 in that order, once each and on
\* no other step, and the run returns ROLLED_BACK.
C2_FullReverseCompensation ==
    \A t \in Threads : \A k \in StepIdx :
        (Ran(t) /\ FailedAtStep(t, k) /\ ~PivotBelow(k)) =>
            /\ StepsOf(CompOf(t)) = Down(k - 1, 0)
            /\ result[t].status = "ROLLED_BACK"

C2_Witness ==
    /\ Ran(Caller) /\ FailedAtStep(Caller, NumSteps - 1) /\ ~PivotBelow(NumSteps - 1)
    /\ Len(CompOf(Caller)) = NumSteps - 1
    /\ CompOf(Caller)[1].step = NumSteps - 2

\* C3: when the execute of step k fails and p is the highest pivot index below
\* k, compensate is invoked exactly on k-1 down to p+1 in that order, the log
\* has exactly one SKIPPED entry, for step p, and compensate is never invoked
\* on p or on a step before p.
SkippedEntries(ls) == {n \in 1 .. Len(ls) : ls[n].status = "SKIPPED"}

C3_PivotHaltsCompensation ==
    \A t \in Threads : \A k \in StepIdx :
        (Ran(t) /\ FailedAtStep(t, k) /\ PivotBelow(k)) =>
            LET p == HighestPivotBelow(k) IN
            /\ StepsOf(CompOf(t)) = Down(k - 1, p + 1)
            /\ Cardinality(SkippedEntries(result[t].logs)) = 1
            /\ \A n \in SkippedEntries(result[t].logs) :
                   result[t].logs[n].step_name = StepName(p)
            /\ \A e \in Range(CompOf(t)) : e.step > p

C3_Witness ==
    /\ Ran(Caller) /\ FailedAtStep(Caller, 3) /\ is_pivot[1] /\ ~is_pivot[2]
    /\ StepsOf(CompOf(Caller)) = <<2>>
    /\ ExecOf(Caller)[1].step = 0

\* C4: with run calls that do not overlap, a run whose id is already recorded
\* invokes no execute and no compensate and returns the terminal status the
\* earlier run returned; over all runs of one id each step's execute is
\* invoked at most once: one run at most gets past the check, and it invokes
\* each step's execute at most once.
C4_DuplicateSkipped ==
    /\ \A t \in Threads :
        (Returned(t) /\ IsDuplicateResult(t)) =>
            /\ events[t] = <<>>
            /\ result[t].status \in {"SUCCESS", "ROLLED_BACK"}
            /\ result[t].status = returned_status[result[t].transaction_id]
    /\ \A id \in TxIds : passes[id] <= 1
    /\ \A t \in Threads : \A s \in StepIdx :
           Cardinality({n \in 1 .. Len(ExecOf(t)) : ExecOf(t)[n].step = s}) <= 1

C4_Witness ==
    /\ Returned(Caller) /\ IsDuplicateResult(Caller)
    /\ result[Caller].status = "ROLLED_BACK"
    /\ passes[result[Caller].transaction_id] = 1

\* the positions of run between "Mark as executing" and the final record
InRun(t) == pc[t] \in {"step_start", "execute", "after_loop",
                       "rollback_walk", "rollback_complete"}
PastCheck(t) == pc[t] = "mark_executing" \/ InRun(t)

\* C5: of two overlapping run calls with the same transaction id at most one
\* gets past the duplicate check.
C5_OnePassesCheck ==
    \A t, u \in Threads :
        (t # u /\ PastCheck(t) /\ PastCheck(u)) => transaction_id[t] # transaction_id[u]

\* C6: under any interleaving of run calls every result returned has status
\* SUCCESS or ROLLED_BACK.
C6_TerminalResults ==
    \A t \in Threads : Returned(t) => result[t].status \in {"SUCCESS", "ROLLED_BACK"}

\* C7: when the execute of step k raises with message m the run returns
\* ROLLED_BACK with error m, for every k (for k = 0 without any compensate
\* call), whatever the compensations of the rollback raise.
C7_ErrorSurfaced ==
    \A t \in Threads : \A k \in StepIdx :
        (Ran(t) /\ k \in FailedSteps(t)) =>
            /\ result[t].status = "ROLLED_BACK"
            /\ result[t].error = FailureMsg(t, k)
            /\ (k = 0 => CompOf(t) = <<>>)

C7_Witness ==
    /\ Ran(Caller) /\ FailedAtStep(Caller, 2)
    /\ \E e \in Range(CompOf(Caller)) : e.arg \in CompMsgs
    /\ result[Caller].error = "m2"
    /\ result[Caller].status = "ROLLED_BACK"

\* C8: when the compensate of step j raises, the log records step j as FAILED
\* with the error text and compensate is still invoked, after it, on every
\* earlier step down to index 0 or to the nearest pivot.
CompensatedAfter(t, n, s) ==
    \E m \in (n + 1) .. Len(CompOf(t)) : CompOf(t)[m].step = s

C8_WalkSurvivesCompensationFailure ==
    \A t \in Threads :
        Ran(t) =>
            \A n \in 1 .. Len(CompOf(t)) :
                LET j == CompOf(t)[n].step IN
                CompOf(t)[n].arg # "ok" =>
                    /\ StepLog(StepName(j), "FAILED", CompOf(t)[n].arg) \in Range(result[t].logs)
                    /\ \A s \in 0 .. (j - 1) :
                           (\A q \in s .. (j - 1) : ~is_pivot[q]) => CompensatedAfter(t, n, s)

C8_Witness ==
    /\ Ran(Caller)
    /\ Len(CompOf(Caller)) = 3
    /\ CompOf(Caller)[1].arg \in CompMsgs
    /\ CompOf(Caller)[3].step = 0

\* C9: once the execute of step k has raised, no later step has its execute
\* invoked, its on_step_start fired or a log entry appended in that run, and
\* every step up to k had its execute invoked exactly once.
LaterNames(k) == {StepName(s) : s \in (k + 1) .. (NumSteps - 1)}

C9_ForwardPassStops ==
    \A t \in Threads : \A k \in StepIdx :
        k \in FailedSteps(t) =>
            /\ \A e \in Range(events[t]) : e.step <= k
            /\ \A e \in Range(logs[t]) \cup Range(rollback_logs[t]) \cup Range(result[t].logs) :
                   e.step_name \notin LaterNames(k)
            /\ StepsOf(ExecOf(t)) = Up(0, k)

C9_Witness ==
    /\ Ran(Caller) /\ FailedAtStep(Caller, 1)
    /\ on_step_start
    /\ Len(ExecOf(Caller)) = 2

Terminal == {"SUCCESS", "ROLLED_BACK"}

C11_TerminalRecordKept ==
    [][/\ \A t \in Threads :
            (pc[t] # "returned" /\ pc'[t] = "returned" /\ ~IsDuplicateResult(t)') =>
                /\ result'[t].status \in Terminal
                /\ store'[result'[t].transaction_id] = result'[t].status
       /\ \A id \in TxIds : store[id] \in Terminal => store'[id] = store[id]]_vars

C11_Witness ==
    /\ Ran(Caller)
    /\ result[Caller].status = "ROLLED_BACK"
    /\ store[result[Caller].transaction_id] = "ROLLED_BACK"
    /\ \E id \in TxIds : store[id] = "SUCCESS"

\* C12: a duplicate short-circuit returns a result whose log is the single
\* entry IDEMPOTENCY_CHECK / SKIPPED and whose error is the duplicate notice,
\* and it leaves the store and the context's executed_steps, logs and error
\* as they were.
InDuplicateBranch(t) ==
    \/ pc[t] = "is_duplicate" /\ is_duplicate(transaction_id[t])
    \/ pc[t] = "get_status"

C12_DuplicateFrame ==
    [][\A t \in Threads :
        (InDuplicateBranch(t) /\ pc'[t] # pc[t]) =>
            /\ store' = store
            /\ ctx'[t].executed_steps = ctx[t].executed_steps
            /\ ctx'[t].logs = ctx[t].logs
            /\ ctx'[t].error = ctx[t].error
            /\ pc'[t] = "returned" =>
                   /\ result'[t].logs = <<StepLog("IDEMPOTENCY_CHECK", "SKIPPED", None)>>
                   /\ result'[t].error = "Duplicate transaction"]_vars

C12_Witness ==
    /\ Returned(Caller) /\ IsDuplicateResult(Caller)
    /\ Len(result[Caller].logs) = 1
    /\ ctx[Caller].executed_steps # <<>>
    /\ ctx[Caller].error \in Msgs

\* what a result's log shows: the steps that completed, the step that failed,
\* the steps undone, the step at which the walk stopped
Markers == {"IDEMPOTENCY_CHECK", "ROLLBACK_START", "ROLLBACK_COMPLETE"}
NamesOf(ls) == [n \in 1 .. Len(ls) |-> ls[n].step_name]
ShownCompleted(ls) ==
    NamesOf(SelectSeq(ls, LAMBDA e : e.status = "SUCCESS" /\ e.step_name \notin Markers))
ShownUndone(ls) ==
    NamesOf(SelectSeq(ls, LAMBDA e : e.status = "COMPENSATED" /\ e.step_name \notin Markers))
ShownPivotStop(ls) ==
    NamesOf(SelectSeq(ls, LAMBDA e : e.status = "SKIPPED" /\ e.step_name \notin Markers))
NamesOfSteps(sq) == [n \in 1 .. Len(sq) |-> StepName(sq[n].step)]

\* C13 (as stated): every result, the one of a duplicate submission included,
\* carries the log that tells which steps of the transaction ran: the steps
\* its log shows as completed are the steps its context lists as executed.
C13_EveryLogTellsSteps ==
    \A t \in Threads :
        Returned(t) => ShownCompleted(result[t].logs) = result[t].executed_steps

\* C13 (amended): the result of a non-duplicate run carries the full ordered
\* log: it shows the completed steps, the undone steps and the pivot at which
\* the walk stopped, as they happened; the result of a duplicate submission
\* carries the IDEMPOTENCY_CHECK entry only.
C13_RunLogTellsSteps ==
    \A t \in Threads :
        /\ Ran(t) =>
            /\ ShownCompleted(result[t].logs) =
                   NamesOfSteps(SelectSeq(ExecOf(t), LAMBDA e : e.arg = "ok"))
            /\ ShownUndone(result[t].logs) =
                   NamesOfSteps(SelectSeq(CompOf(t), LAMBDA e : e.arg = "ok"))
            /\ \A k \in FailedSteps(t) :
                   ShownPivotStop(result[t].logs) =
                       IF PivotBelow(k) THEN <<StepName(HighestPivotBelow(k))>> ELSE <<>>
            /\ FailedSteps(t) = {} => ShownPivotStop(result[t].logs) = <<>>
        /\ (Returned(t) /\ IsDuplicateResult(t)) =>
            \A n \in 1 .. Len(result[t].logs) :
                result[t].logs[n].step_name = "IDEMPOTENCY_CHECK"

C13_Witness ==
    /\ Ran(Caller) /\ FailedAtStep(Caller, 3)
    /\ ShownUndone(result[Caller].logs) = <<StepName(2)>>
    /\ ShownPivotStop(result[Caller].logs) = <<StepName(1)>>
    /\ ShownCompleted(result[Caller].logs) = <<StepName(0), StepName(1), StepName(2)>>

\* ------------------------------------------------------------ derived ids
\* the contexts handed to generate_transaction_id: portfolios and trade lists
\* as dicts in every insertion order, and one key the id does not read
Amounts == 1 .. MaxAmount
DictKeys == {"stocks", "bonds"}
IdCtxs ==
    LET Dicts ==
            {<<>>} \cup {<<<<k, a>>>> : k \in DictKeys, a \in Amounts}
                   \cup {d \in {<<<<k1, a1>>, <<k2, a2>>>> :
                                    k1 \in DictKeys, k2 \in DictKeys,
                                    a1 \in Amounts, a2 \in Amounts} : d[1][1] # d[2][1]}
        TradeLists == {<<>>} \cup {<<<<<<"amount", a>>>>>> : a \in Amounts}
    IN [transaction_id : {""}, portfolio_data : Dicts, proposed_trades : TradeLists,
        simulate_buy_failure : BOOLEAN]

\* one call of generate_transaction_id, as run makes it for an empty
\* ctx["transaction_id"], at one of two wall-clock times on one of two
\* orchestrator instances
GenerateId ==
    /\ Len(id_calls) < 2
    /\ \E c \in IdCtxs, now \in {1, 2}, o \in {1, 2} :
         id_calls' = Append(id_calls,
                            [ctx |-> c, now |-> now, orchestrator |-> o,
                             id |-> generate_transaction_id(c)])
    /\ UNCHANGED <<engine, identity, instances, rebalance, harvesting>>

NextIds == GenerateId

SpecIds == InitThreads /\ [][NextIds]_vars

\* C14: two calls whose contexts agree on portfolio_data and proposed_trades
\* obtain the same derived id, whatever the time of the call, the other keys
\* of the context and the orchestrator instance.
C14_SameContentSameId ==
    \A m, n \in 1 .. Len(id_calls) :
        (/\ DictEq(id_calls[m].ctx.portfolio_data, id_calls[n].ctx.portfolio_data)
         /\ ListEq(id_calls[m].ctx.proposed_trades, id_calls[n].ctx.proposed_trades))
            => id_calls[m].id = id_calls[n].id

\* ------------------------------------------------------------ termination
NoRepeat(sq) == \A m, n \in 1 .. Len(sq) : sq[m] = sq[n] => m = n

\* C15: every run call eventually returns, with a result that is SUCCESS,
\* ROLLED_BACK or a duplicate response; meanwhile the forward pass executes
\* no step twice and the rollback walk compensates no step twice.
C15_RunTerminates ==
    /\ \A t \in {Caller} :
          (pc[t] = "is_duplicate") ~>
              (Returned(t) /\ (result[t].status \in Terminal \/ IsDuplicateResult(t)))
    /\ [](\A t \in Threads : NoRepeat(StepsOf(ExecOf(t))) /\ NoRepeat(StepsOf(CompOf(t))))

C15_Witness ==
    /\ Ran(Caller) /\ result[Caller].status = "ROLLED_BACK"
    /\ Len(ExecOf(Caller)) = NumSteps
    /\ Len(CompOf(Caller)) = NumSteps - 1

\* ------------------------------------------------------------ callbacks
\* the log of the call of t: the local list while run is going, the result's after
LogOf(t) == IF Returned(t) THEN result[t].logs ELSE logs[t]
ForwardStatus(outcome) == IF outcome = "ok" THEN "SUCCESS" ELSE "FAILED"
IsStart(e) == e.op = "on_step_start"
IsForwardComplete(e) == e.op = "on_step_complete" /\ e.arg \in {"SUCCESS", "FAILED"}

\* C16: in the forward pass each attempted step i has its registered
\* on_step_start(name, i+1, n) invoked once, right before its execute, and
\* its registered on_step_complete(name, SUCCESS or FAILED) once, right after
\* its execute (so before the next step's start), with the status of the
\* step's forward log entry; a duplicate short-circuit fires no callback.
C16_CallbackOrder ==
    \A t \in Threads :
        LET ev == events[t] IN
        /\ \A n \in 1 .. Len(ev) :
              /\ IsExecute(ev[n]) =>
                    /\ on_step_start =>
                          n > 1 /\ ev[n - 1] = Event("on_step_start", ev[n].step,
                                                     <<StepName(ev[n].step), ev[n].step + 1, NumSteps>>)
                    /\ on_step_complete =>
                          /\ n < Len(ev)
                          /\ ev[n + 1] = Event("on_step_complete", ev[n].step,
                                               ForwardStatus(ev[n].arg))
                          /\ \E e \in Range(LogOf(t)) :
                                /\ e.step_name = StepName(ev[n].step)
                                /\ e.status = ev[n + 1].arg
              /\ IsStart(ev[n]) =>
                    /\ on_step_start
                    /\ n < Len(ev) => IsExecute(ev[n + 1]) /\ ev[n + 1].step = ev[n].step
              /\ IsForwardComplete(ev[n]) =>
                    /\ on_step_complete
                    /\ n > 1 /\ IsExecute(ev[n - 1]) /\ ev[n - 1].step = ev[n].step
        /\ NoRepeat(StepsOf(SelectSeq(ev, IsStart)))
        /\ NoRepeat(StepsOf(SelectSeq(ev, IsForwardComplete)))
        /\ (InDuplicateBranch(t) \/ (Returned(t) /\ IsDuplicateResult(t))) => ev = <<>>

C16_Witness ==
    /\ Ran(Caller) /\ FailedAtStep(Caller, 1)
    /\ on_step_start /\ on_step_complete
    /\ Len(SelectSeq(events[Caller], IsStart)) = 2
    /\ Len(SelectSeq(events[Caller], IsForwardComplete)) = 2
    /\ \E n \in 1 .. Len(events[Caller]) :
          events[Caller][n] = Event("on_step_complete", 1, "FAILED")

\* ------------------------------------------------------------ RebalanceSaga
\* src/src/sagas/rebalance.py.  The context is a dict: a function from the
\* keys that are set to their values.  True, False and None are written as
\* the strings below.
PyTrue == "True"
PyFalse == "False"
\* "if v:" for a flag that is True, False or None
Truthy(v) == v = PyTrue

\* ctx[key] = value
Put(c, key, value) == (key :> value) @@ c

RECURSIVE SumOf(_)
SumOf(sq) == IF sq = <<>> THEN 0 ELSE Head(sq) + SumOf(Tail(sq))

\* RebalanceSaga.__init__: the four steps; PlaceBuyOrders is the pivot
RebSteps == <<"ValidateMarket", "PlaceSellOrders", "SettleCash", "PlaceBuyOrders">>

\* mutant: the pivot is SettleCash
RebIsPivotSettle(idx) == idx = 2

RebIsPivot(idx) == idx = 3

\* what a step's execute or compensate did: the context it returned, the
\* clock after it, and the error it raised (None when it returned)
Outcome(c, now, err) == [ctx |-> c, now |-> now, error |-> err]

\* the n-th call of datetime.now().timestamp() after `now`: each order placed
\* reads a later time
Timestamp(now, n) == now + n

\* the trades a rebalance proposes
Trades == [action : {"SELL", "BUY"}, asset : {"stocks", "bonds"}, amount : Amounts]
RECURSIVE SeqsUpTo(_, _)
SeqsUpTo(S, n) ==
    IF n = 0 THEN {<<>>}
    ELSE LET shorter == SeqsUpTo(S, n - 1)
         IN shorter \cup {Append(sq, x) : sq \in shorter, x \in S}
TradeSeqs == SeqsUpTo(Trades, MaxTrades)

ValidateMarket_execute(c, now) ==
    Outcome(Put(Put(c, "market_validated", PyTrue),
                "market_status", "Markets open. Spreads normal."), now, None)

ValidateMarket_compensate(c, now) ==
    Outcome(Put(c, "market_validated", None), now, None)

PlaceSellOrders_execute(c, now) ==
    LET trades == Get(c, "proposed_trades", <<>>)
        sell_trades == SelectSeq(trades, LAMBDA t : t.action = "SELL")
        executed_sells ==
            [n \in 1 .. Len(sell_trades) |->
                [order_id |-> <<"SELL", sell_trades[n].asset, Timestamp(now, n)>>,
                 asset |-> sell_trades[n].asset,
                 amount |-> sell_trades[n].amount,
                 status |-> "FILLED",
                 fill_price |-> sell_trades[n].amount]]
        proceeds == SumOf([n \in 1 .. Len(executed_sells) |-> executed_sells[n].fill_price])
    IN Outcome(Put(Put(c, "executed_sells", executed_sells), "sell_proceeds", proceeds),
               now + Len(sell_trades), None)

\* mutant: the buyback refers to its own order id
BuybackOrderSelfRef(sell, ts) ==
    [order_id |-> <<"BUYBACK", sell.asset, ts>>,
     asset |-> sell.asset,
     amount |-> sell.amount,
     status |-> "FILLED",
     compensation_for |-> <<"BUYBACK", sell.asset, ts>>]

\* PlaceSellOrdersStep.compensate: the order that buys back one executed sell
BuybackOrder(sell, ts) ==
    [order_id |-> <<"BUYBACK", sell.asset, ts>>,
     asset |-> sell.asset,
     amount |-> sell.amount,
     status |-> "FILLED",
     compensation_for |-> sell.order_id]

PlaceSellOrders_compensate(c, now) ==
    LET executed_sells == Get(c, "executed_sells", <<>>)
        buyback_orders ==
            [n \in 1 .. Len(executed_sells) |->
                BuybackOrder(executed_sells[n], Timestamp(now, n))]
    IN Outcome(Put(Put(Put(c, "buyback_orders", buyback_orders),
                       "executed_sells", <<>>),
                   "sell_proceeds", 0),
               now + Len(executed_sells), None)

SettleCash_execute(c, now) ==
    Outcome(Put(Put(c, "cash_settled", PyTrue),
                "available_cash", Get(c, "sell_proceeds", 0)), now, None)

SettleCash_compensate(c, now) ==
    Outcome(Put(Put(c, "cash_settled", PyFalse), "available_cash", 0), now, None)

PlaceBuyOrders_execute(c, now) ==
    LET trades == Get(c, "proposed_trades", <<>>)
        buy_trades == SelectSeq(trades, LAMBDA t : t.action = "BUY")
        available_cash == Get(c, "available_cash", 0)
        total_buy_cost == SumOf([n \in 1 .. Len(buy_trades) |-> buy_trades[n].amount])
        executed_buys ==
            [n \in 1 .. Len(buy_trades) |->
                [order_id |-> <<"BUY", buy_trades[n].asset, Timestamp(now, n)>>,
                 asset |-> buy_trades[n].asset,
                 amount |-> buy_trades[n].amount,
                 status |-> "FILLED",
                 fill_price |-> buy_trades[n].amount]]
    IN IF Truthy(Get(c, "simulate_buy_failure", None))
       THEN Outcome(c, now, "Simulated failure: Insufficient funds for buy orders")
       ELSE Outcome(Put(Put(c, "executed_buys", executed_buys),
                        "remaining_cash", available_cash - total_buy_cost),
                    now + Len(buy_trades), None)

PlaceBuyOrders_compensate(c, now) ==
    LET executed_buys == Get(c, "executed_buys", <<>>)
        sellback_orders ==
            [n \in 1 .. Len(executed_buys) |->
                [order_id |-> <<"SELLBACK", executed_buys[n].asset, Timestamp(now, n)>>,
                 asset |-> executed_buys[n].asset,
                 amount |-> executed_buys[n].amount,
                 status |-> "FILLED",
                 compensation_for |-> executed_buys[n].order_id]]
    IN Outcome(Put(Put(c, "sellback_orders", sellback_orders), "executed_buys", <<>>),
               now + Len(executed_buys), None)

\* self.steps[idx].execute(ctx) and self.steps[idx].compensate(ctx)
step_execute(idx, c, now) ==
    CASE idx = 0 -> ValidateMarket_execute(c, now)
      [] idx = 1 -> PlaceSellOrders_execute(c, now)
      [] idx = 2 -> SettleCash_execute(c, now)
      [] idx = 3 -> PlaceBuyOrders_execute(c, now)

step_compensate(idx, c, now) ==
    CASE idx = 0 -> ValidateMarket_compensate(c, now)
      [] idx = 1 -> PlaceSellOrders_compensate(c, now)
      [] idx = 2 -> SettleCash_compensate(c, now)
      [] idx = 3 -> PlaceBuyOrders_compensate(c, now)

StepCall(op, idx, by, before, after) ==
    [op |-> op, step |-> RebSteps[idx + 1], by |-> by, before |-> before, after |-> after]

\* the contexts a caller hands to RebalanceSaga.run, as run leaves them at
\* "Initialize tracking"; the failure flag is absent, False or True
RebCtxs ==
    LET base == {("transaction_id" :> "tx1") @@ ("proposed_trades" :> trades)
                    @@ ("executed_steps" :> <<>>) @@ ("error" :> None) :
                 trades \in TradeSeqs}
    IN base \cup {Put(c, "simulate_buy_failure", flag) : c \in base, flag \in {PyTrue, PyFalse}}

\* RebalanceSaga.run -> SagaOrchestrator.run, up to the forward loop
RebCall ==
    /\ rb_pc = "idle"
    /\ rb_ctx' \in RebCtxs
    /\ rb_pc' = "forward"
    /\ UNCHANGED <<engine, identity, instances, id_calls, harvesting, rb_i, rb_now, rb_result, rb_calls>>

\* SagaOrchestrator.run: the result of a run that ended with `status`
RebResult(status, c) ==
    [NoResult EXCEPT !.status = status,
                     !.transaction_id = c["transaction_id"],
                     !.executed_steps = c["executed_steps"],
                     !.error = c["error"]]

\* one iteration of the forward loop of run over the four steps
RebExecute ==
    /\ rb_pc = "forward"
    /\ LET out == step_execute(rb_i, rb_ctx, rb_now)
           raised == out.error # None
           done == Put(out.ctx, "executed_steps",
                       Append(out.ctx["executed_steps"], RebSteps[rb_i + 1]))
           failed == Put(out.ctx, "error", out.error)
       IN /\ rb_calls' = Append(rb_calls, StepCall("execute", rb_i, "run", rb_ctx, out.ctx))
          /\ rb_now' = out.now
          /\ IF ~raised
             THEN /\ rb_ctx' = done
                  /\ IF rb_i + 1 >= Len(RebSteps)
                     THEN /\ rb_pc' = "returned"
                          /\ rb_result' = RebResult("SUCCESS", done)
                          /\ UNCHANGED rb_i
                     ELSE /\ rb_i' = rb_i + 1
                          /\ UNCHANGED <<rb_pc, rb_result>>
             ELSE /\ rb_ctx' = failed
                  /\ IF RollbackFirst(rb_i) >= 0
                     THEN /\ rb_pc' = "rollback"
                          /\ rb_i' = RollbackFirst(rb_i)
                          /\ UNCHANGED rb_result
                     ELSE /\ rb_pc' = "returned"
                          /\ rb_result' = RebResult(final_status, failed)
                          /\ UNCHANGED rb_i
    /\ UNCHANGED <<engine, identity, instances, id_calls, harvesting>>

\* one iteration of the walk of _rollback over the four steps
RebCompensate ==
    /\ rb_pc = "rollback"
    /\ IF RebIsPivot(rb_i)
       THEN /\ rb_pc' = "returned"
            /\ rb_result' = RebResult(final_status, rb_ctx)
            /\ UNCHANGED <<rb_ctx, rb_i, rb_now, rb_calls>>
       ELSE LET out == step_compensate(rb_i, rb_ctx, rb_now)
            IN /\ rb_calls' = Append(rb_calls,
                                     StepCall("compensate", rb_i, "run", rb_ctx, out.ctx))
               /\ rb_ctx' = out.ctx
               /\ rb_now' = out.now
               /\ IF RollbackNext(rb_i) >= 0
                  THEN /\ rb_i' = RollbackNext(rb_i)
                       /\ UNCHANGED <<rb_pc, rb_result>>
                  ELSE /\ rb_pc' = "returned"
                       /\ rb_result' = RebResult(final_status, out.ctx)
                       /\ UNCHANGED rb_i
    /\ UNCHANGED <<engine, identity, instances, id_calls, harvesting>>

\* after run has returned, the caller invokes a step's compensate on the
\* context once more (a further rollback attempt)
DirectCalls == SelectSeq(rb_calls, LAMBDA call : call.by = "caller")

RebDirectCompensate ==
    /\ rb_pc = "returned"
    /\ Len(DirectCalls) < MaxDirect
    /\ \E idx \in 0 .. (Len(RebSteps) - 1) :
         LET out == step_compensate(idx, rb_ctx, rb_now)
         IN /\ rb_calls' = Append(rb_calls,
                                  StepCall("compensate", idx, "caller", rb_ctx, out.ctx))
            /\ rb_ctx' = out.ctx
            /\ rb_now' = out.now
    /\ UNCHANGED <<engine, identity, instances, id_calls, harvesting, rb_pc, rb_i, rb_result>>

NextRebalance ==
    \/ RebCall
    \/ RebExecute
    \/ RebCompensate
    \/ RebDirectCompensate

SpecRebalance == InitThreads /\ [][NextRebalance]_vars

\* ------------------------------------------------------------ Rebalance claims
CallsOf(op) == SelectSeq(rb_calls, LAMBDA call : call.op = op /\ call.by = "run")
CallNames(calls) == [n \in 1 .. Len(calls) |-> calls[n].step]
IsSellCompensate(call) == call.op = "compensate" /\ call.step = "PlaceSellOrders"
BuyFailureSet == Truthy(Get(rb_ctx, "simulate_buy_failure", None))
RebReturned == rb_pc = "returned" /\ DirectCalls = <<>>

\* C17: a Rebalance run with simulate_buy_failure set returns ROLLED_BACK
\* with the simulated-failure message; SettleCash, PlaceSellOrders and
\* ValidateMarket are compensated in that order; the context ends with no
\* executed sells, sell_proceeds 0, available_cash 0 and without executed_buys.
C17_BuyFailureRollsBack ==
    (RebReturned /\ BuyFailureSet) =>
        /\ rb_result.status = "ROLLED_BACK"
        /\ rb_result.error = "Simulated failure: Insufficient funds for buy orders"
        /\ CallNames(CallsOf("compensate")) = <<"SettleCash", "PlaceSellOrders", "ValidateMarket">>
        /\ CallNames(CallsOf("execute")) = RebSteps
        /\ rb_ctx["executed_sells"] = <<>>
        /\ rb_ctx["sell_proceeds"] = 0
        /\ rb_ctx["available_cash"] = 0
        /\ "executed_buys" \notin DOMAIN rb_ctx

C17_Witness ==
    /\ RebReturned /\ BuyFailureSet
    /\ rb_result.status = "ROLLED_BACK"
    /\ \E n \in 1 .. Len(rb_calls) :
          /\ rb_calls[n].op = "execute" /\ rb_calls[n].step = "PlaceSellOrders"
          /\ Len(rb_calls[n].after["executed_sells"]) = 2
    /\ Len(rb_ctx["buyback_orders"]) = 2

\* C18: PlaceSellOrders.compensate produces one buyback order per executed
\* sell, in the same order, with the sell's asset and amount and referring to
\* the sell's order id, and leaves executed_sells empty and sell_proceeds 0.
C18_BuybackPerSell ==
    \A n \in 1 .. Len(rb_calls) :
        IsSellCompensate(rb_calls[n]) =>
            LET sells == Get(rb_calls[n].before, "executed_sells", <<>>)
                buybacks == rb_calls[n].after["buyback_orders"]
            IN /\ Len(buybacks) = Len(sells)
               /\ \A k \in 1 .. Len(sells) :
                     /\ buybacks[k].asset = sells[k].asset
                     /\ buybacks[k].amount = sells[k].amount
                     /\ buybacks[k].compensation_for = sells[k].order_id
               /\ rb_calls[n].after["executed_sells"] = <<>>
               /\ rb_calls[n].after["sell_proceeds"] = 0

C18_Witness ==
    \E n \in 1 .. Len(rb_calls) :
        /\ IsSellCompensate(rb_calls[n])
        /\ Len(rb_calls[n].before["executed_sells"]) = 2
        /\ rb_calls[n].before["executed_sells"][1].asset
              # rb_calls[n].before["executed_sells"][2].asset
        /\ Len(rb_calls[n].after["buyback_orders"]) = 2

\* C19: a second invocation of PlaceSellOrders.compensate is a no-op: it
\* leaves the context, the recorded buyback_orders included, as the first
\* invocation left it.
C19_SecondCompensateNoOp ==
    \A n \in 1 .. Len(rb_calls) :
        (IsSellCompensate(rb_calls[n]) /\ \E m \in 1 .. (n - 1) : IsSellCompensate(rb_calls[m]))
            => rb_calls[n].after = rb_calls[n].before

\* ------------------------------------------------------------ TaxLossHarvestingSaga
\* src/src/sagas/tax_loss_harvesting.py
Fund(family, provider) == [family |-> family, provider |-> provider]

FUND_FAMILY_MAPPING ==
    ("VTI" :> Fund("total_us_stock", "Vanguard")) @@
    ("VTSAX" :> Fund("total_us_stock", "Vanguard")) @@
    ("ITOT" :> Fund("total_us_stock", "iShares")) @@
    ("SPTM" :> Fund("total_us_stock", "SPDR")) @@
    ("SCHB" :> Fund("total_us_stock", "Schwab")) @@
    ("SPY" :> Fund("sp500", "SPDR")) @@
    ("VOO" :> Fund("sp500", "Vanguard")) @@
    ("IVV" :> Fund("sp500", "iShares")) @@
    ("SPLG" :> Fund("sp500", "SPDR")) @@
    ("BND" :> Fund("total_bond", "Vanguard")) @@
    ("AGG" :> Fund("total_bond", "iShares")) @@
    ("SCHZ" :> Fund("total_bond", "Schwab")) @@
    ("VXUS" :> Fund("intl_stock", "Vanguard")) @@
    ("IXUS" :> Fund("intl_stock", "iShares")) @@
    ("VEU" :> Fund("intl_stock", "Vanguard")) @@
    ("AAPL" :> Fund("aapl_individual", "Individual")) @@
    ("MSFT" :> Fund("msft_individual", "Individual")) @@
    ("GOOGL" :> Fund("googl_individual", "Individual")) @@
    ("GOOG" :> Fund("googl_individual", "Individual")) @@
    ("AMZN" :> Fund("amzn_individual", "Individual")) @@
    ("NVDA" :> Fund("nvda_individual", "Individual")) @@
    ("META" :> Fund("meta_individual", "Individual")) @@
    ("TSLA" :> Fund("tsla_individual", "Individual")) @@
    ("GLD" :> Fund("gold", "SPDR")) @@
    ("IAU" :> Fund("gold", "iShares")) @@
    ("GLDM" :> Fund("gold", "SPDR")) @@
    ("VNQ" :> Fund("reit", "Vanguard")) @@
    ("IYR" :> Fund("reit", "iShares")) @@
    ("SCHH" :> Fund("reit", "Schwab"))

REPLACEMENT_MAPPING ==
    ("VTI" :> <<"ITOT", "SPTM", "SCHB">>) @@
    ("ITOT" :> <<"VTI", "SPTM", "SCHB">>) @@
    ("SPY" :> <<"VOO", "IVV", "SPLG">>) @@
    ("VOO" :> <<"SPY", "IVV", "SPLG">>) @@
    ("IVV" :> <<"SPY", "VOO", "SPLG">>) @@
    ("BND" :> <<"AGG", "SCHZ">>) @@
    ("AGG" :> <<"BND", "SCHZ">>) @@
    ("VXUS" :> <<"IXUS", "VEU">>) @@
    ("GLD" :> <<"IAU", "GLDM">>) @@
    ("VNQ" :> <<"IYR", "SCHH">>)

\* FUND_FAMILY_MAPPING.get(asset, {}).get("family")
FamilyOf(asset) == Get(FUND_FAMILY_MAPPING, asset, Fund(None, None)).family

\* is_substantially_identical, from "if not family1 or not family2" on
SameFamilies(family1, family2) ==
    IF family1 = None \/ family2 = None THEN FALSE
    ELSE family1 = family2

\* mutant: without the test for the same ticker
is_substantially_identical_by_family(asset1, asset2) ==
    SameFamilies(FamilyOf(asset1), FamilyOf(asset2))

is_substantially_identical(asset1, asset2) ==
    IF asset1 = asset2 THEN TRUE
    ELSE SameFamilies(FamilyOf(asset1), FamilyOf(asset2))

get_replacement_suggestions(asset) == Get(REPLACEMENT_MAPPING, asset, <<>>)

\* ---- the inputs of a harvesting run
\* IdentifyLossesStep.__init__: min_loss_threshold (the amounts are scaled down)
min_loss_threshold == 1

\* a tax lot, as TaxLot.to_dict gives it, with the keys the steps read: a
\* fund that has a replacement, or a stock that has none; a loss beyond the
\* threshold, a loss at the threshold, or a gain
TaxLotOf(id, asset, gain_loss, value) ==
    ("lot_id" :> id) @@ ("asset" :> asset) @@
    ("unrealized_gain_loss" :> gain_loss) @@ ("current_value" :> value)

\* the lists of up to n lots; the lot at position k has lot_id k and is
\* worth k, so that no two lots of a list have the same current_value
RECURSIVE LotLists(_)
LotLists(n) ==
    IF n = 0 THEN {<<>>}
    ELSE LET shorter == LotLists(n - 1)
         IN shorter \cup
            {Append(lots, TaxLotOf(Len(lots) + 1, asset, gain_loss, Len(lots) + 1)) :
                lots \in {l \in shorter : Len(l) = n - 1},
                asset \in {"VTI", "AAPL"}, gain_loss \in {-3, -2, -1, 1}}

\* Time is counted in half days.  A transaction of the history is dated
\* relative to the current_date of CheckWashSale: 30 days after it, 30 days
\* and a half after it, 30 days and a half before it, 31 days before it.
current_date == 0
Txns == [date : {60, 61, -61, -62}, asset : {"VTSAX", "AAPL"}, action : {"BUY", "buy", "SELL"}]
Histories == {<<>>} \cup {<<txn>> : txn \in Txns}

\* the contexts a caller hands to TaxLossHarvestingSaga.run, as run leaves
\* them at "Initialize tracking"; the failure flag is absent or True
TlhCtxs ==
    LET base == {("transaction_id" :> "tx1") @@ ("tax_lots" :> lots)
                    @@ ("transaction_history" :> history)
                    @@ ("executed_steps" :> <<>>) @@ ("error" :> None) :
                 lots \in LotLists(MaxLots), history \in Histories}
    IN base \cup {Put(c, "simulate_replacement_failure", PyTrue) : c \in base}

\* ---- IdentifyLossesStep
\* list.sort(key = unrealized_gain_loss): ascending and stable.  The place of
\* a lot in the sorted list: after the lots with a smaller key and after the
\* lots with the same key that stood before it
SortedPlace(lots, k) ==
    1 + Cardinality({j \in 1 .. Len(lots) :
                        \/ lots[j]["unrealized_gain_loss"] < lots[k]["unrealized_gain_loss"]
                        \/ /\ lots[j]["unrealized_gain_loss"] = lots[k]["unrealized_gain_loss"]
                           /\ j < k})

SortByLoss(lots) ==
    [place \in 1 .. Len(lots) |->
        lots[CHOOSE k \in 1 .. Len(lots) : SortedPlace(lots, k) = place]]

GainLossOf(lots) == [n \in 1 .. Len(lots) |-> lots[n]["unrealized_gain_loss"]]

Abs(x) == IF x < 0 THEN -x ELSE x

\* mutant: a loss equal to the threshold is an opportunity
IsOpportunityInclusive(lot) == lot["unrealized_gain_loss"] <= -min_loss_threshold

\* IdentifyLossesStep.execute: if loss < -self.min_loss_threshold
IsOpportunity(lot) == lot["unrealized_gain_loss"] < -min_loss_threshold

IdentifyLosses_execute(c, now) ==
    LET tax_lots == Get(c, "tax_lots", <<>>)
        loss_opportunities ==
            SortByLoss(SelectSeq(tax_lots, IsOpportunity))
        total == SumOf(GainLossOf(loss_opportunities))
        message ==
            IF loss_opportunities = <<>>
            THEN "No tax-loss harvesting opportunities found above threshold."
            ELSE "Found " \o ToString(Len(loss_opportunities))
                    \o " loss-harvesting opportunities totaling $" \o ToString(Abs(total))
                    \o " in losses."
    IN Outcome(Put(Put(Put(c, "tlh_opportunities", loss_opportunities),
                       "tlh_total_potential_loss", total),
                   "tlh_status_message", message),
               now, None)

IdentifyLosses_compensate(c, now) ==
    Outcome(Put(Put(c, "tlh_opportunities", None), "tlh_total_potential_loss", None),
            now, None)

\* ---- CheckWashSaleStep
\* timedelta.days: the whole days of a difference, rounded down
Days(half_days) == half_days \div 2

\* abs((current_date - txn_date).days)
days_diff(txn) == Abs(Days(current_date - txn.date))

\* str.upper() of the actions of the history
Upper(action) ==
    CASE action = "buy" -> "BUY"
      [] action = "sell" -> "SELL"
      [] OTHER -> action

\* the test of the inner loop of CheckWashSaleStep.execute
Conflicts(asset, txn) ==
    /\ days_diff(txn) <= 30
    /\ Upper(txn.action) = "BUY"
    /\ is_substantially_identical(asset, txn.asset)

\* the lot after the outer loop body: marked with the first conflicting
\* transaction, or marked clear
CheckedLot(opp, history) ==
    LET conflicting == SelectSeq(history, LAMBDA txn : Conflicts(opp["asset"], txn))
    IN IF conflicting # <<>>
       THEN Put(opp, "wash_sale_violation",
                [loss_asset |-> opp["asset"],
                 conflicting_asset |-> conflicting[1].asset,
                 conflicting_date |-> conflicting[1].date,
                 days_from_today |-> days_diff(conflicting[1])])
       ELSE Put(opp, "wash_sale_clear", PyTrue)

IsViolation(opp) == "wash_sale_violation" \in DOMAIN opp

\* mutant: the step also fails when a single lot is valid
NoneValidOrOne(valid_opportunities) == Len(valid_opportunities) <= 1

\* CheckWashSaleStep.execute: if not valid_opportunities: raise
NoneValid(valid_opportunities) == valid_opportunities = <<>>

CheckWashSale_execute(c, now) ==
    LET opportunities == Get(c, "tlh_opportunities", <<>>)
        transaction_history == Get(c, "transaction_history", <<>>)
        checked == [n \in 1 .. Len(opportunities) |->
                        CheckedLot(opportunities[n], transaction_history)]
        wash_sale_violations == SelectSeq(checked, IsViolation)
        valid_opportunities == SelectSeq(checked, LAMBDA opp : ~IsViolation(opp))
        \* the lots are marked in place: the list of opportunities and the
        \* caller's tax_lots hold the same dicts
        marked == Put(Put(c, "tlh_opportunities", checked),
                      "tax_lots",
                      [n \in 1 .. Len(c["tax_lots"]) |->
                          IF \E k \in 1 .. Len(opportunities) : opportunities[k] = c["tax_lots"][n]
                          THEN CheckedLot(c["tax_lots"][n], transaction_history)
                          ELSE c["tax_lots"][n]])
        listed == Put(Put(marked, "tlh_wash_sale_violations", wash_sale_violations),
                      "tlh_valid_opportunities", valid_opportunities)
        warned == IF wash_sale_violations # <<>>
                  THEN Put(listed, "tlh_wash_sale_warning",
                           ToString(Len(wash_sale_violations))
                              \o " positions have wash sale conflicts and will be skipped.")
                  ELSE listed
    IN IF NoneValid(valid_opportunities)
       THEN Outcome(warned, now,
                    "No valid tax-loss harvesting opportunities after wash sale check.")
       ELSE Outcome(warned, now, None)

CheckWashSale_compensate(c, now) ==
    Outcome(Put(Put(c, "tlh_wash_sale_violations", None), "tlh_valid_opportunities", None),
            now, None)

\* ---- SellLossPositionsStep
\* the sell order of one lot, with the keys the later steps read
SellOrder(opp, ts) ==
    [order_id |-> <<"TLH_SELL", opp["asset"], opp["lot_id"], ts>>,
     asset |-> opp["asset"],
     lot_id |-> opp["lot_id"],
     proceeds |-> Get(opp, "current_value", 0),
     realized_loss |-> Get(opp, "unrealized_gain_loss", 0),
     status |-> "FILLED"]

\* mutant: the violations are sold as well
LotsToSellAll(c) ==
    Get(c, "tlh_valid_opportunities", <<>>) \o Get(c, "tlh_wash_sale_violations", <<>>)

\* SellLossPositionsStep.execute: opportunities = ctx.get("tlh_valid_opportunities", [])
LotsToSell(c) == Get(c, "tlh_valid_opportunities", <<>>)

SellLossPositions_execute(c, now) ==
    LET opportunities == LotsToSell(c)
        executed_sells == [n \in 1 .. Len(opportunities) |->
                              SellOrder(opportunities[n], Timestamp(now, n))]
        total_proceeds == SumOf([n \in 1 .. Len(executed_sells) |-> executed_sells[n].proceeds])
        total_losses_harvested ==
            SumOf([n \in 1 .. Len(executed_sells) |-> Abs(executed_sells[n].realized_loss)])
    IN Outcome(Put(Put(Put(Put(c, "tlh_executed_sells", executed_sells),
                           "tlh_total_proceeds", total_proceeds),
                       "tlh_harvested_losses", total_losses_harvested),
                   "tlh_available_for_reinvestment", total_proceeds),
               now + Len(opportunities), None)

SellLossPositions_compensate(c, now) ==
    LET executed_sells == Get(c, "tlh_executed_sells", <<>>)
        buyback_orders ==
            [n \in 1 .. Len(executed_sells) |->
                [order_id |-> <<"TLH_BUYBACK", executed_sells[n].asset, Timestamp(now, n)>>,
                 asset |-> executed_sells[n].asset,
                 status |-> "FILLED",
                 compensation_for |-> executed_sells[n].order_id]]
    IN Outcome(Put(Put(Put(c, "tlh_buyback_orders", buyback_orders),
                       "tlh_executed_sells", <<>>),
                   "tlh_harvested_losses", 0),
               now + Len(executed_sells), None)

\* ---- PurchaseReplacementStep
\* mutant: the realized loss is reinvested instead of the proceeds
investment_amount_loss(sell) == Abs(sell.realized_loss)

\* PurchaseReplacementStep.execute: investment_amount = sell["proceeds"]
investment_amount(sell) == sell.proceeds

PurchaseReplacement_execute(c, now) ==
    LET executed_sells == Get(c, "tlh_executed_sells", <<>>)
        available_cash == Get(c, "tlh_available_for_reinvestment", 0)
        replaced == SelectSeq(executed_sells,
                              LAMBDA sell : get_replacement_suggestions(sell.asset) # <<>>)
        unreplaced == SelectSeq(executed_sells,
                                LAMBDA sell : get_replacement_suggestions(sell.asset) = <<>>)
        replacement_purchases ==
            [n \in 1 .. Len(replaced) |->
                [order_id |-> <<"TLH_BUY", get_replacement_suggestions(replaced[n].asset)[1],
                                Timestamp(now, n)>>,
                 asset |-> get_replacement_suggestions(replaced[n].asset)[1],
                 original_asset |-> replaced[n].asset,
                 amount |-> investment_amount(replaced[n]),
                 status |-> "FILLED"]]
        kept == [n \in 1 .. Len(unreplaced) |->
                    [original_asset |-> unreplaced[n].asset,
                     amount |-> unreplaced[n].proceeds,
                     reason |-> "No suitable replacement security found"]]
        total_invested ==
            SumOf([n \in 1 .. Len(replacement_purchases) |-> replacement_purchases[n].amount])
        with_cash == IF kept = <<>> THEN c
                     ELSE Put(c, "tlh_kept_as_cash", Get(c, "tlh_kept_as_cash", <<>>) \o kept)
    IN IF Truthy(Get(c, "simulate_replacement_failure", None))
       THEN Outcome(c, now, "Simulated failure: Unable to purchase replacement securities")
       ELSE Outcome(Put(Put(Put(with_cash, "tlh_replacement_purchases", replacement_purchases),
                            "tlh_total_reinvested", total_invested),
                        "tlh_remaining_cash", available_cash - total_invested),
                    now + Len(replaced), None)

PurchaseReplacement_compensate(c, now) ==
    LET replacement_purchases == Get(c, "tlh_replacement_purchases", <<>>)
        sellback_orders ==
            [n \in 1 .. Len(replacement_purchases) |->
                [order_id |-> <<"TLH_SELLBACK", replacement_purchases[n].asset, Timestamp(now, n)>>,
                 asset |-> replacement_purchases[n].asset,
                 amount |-> replacement_purchases[n].amount,
                 status |-> "FILLED",
                 compensation_for |-> replacement_purchases[n].order_id]]
    IN Outcome(Put(Put(c, "tlh_sellback_orders", sellback_orders),
                   "tlh_replacement_purchases", <<>>),
               now + Len(replacement_purchases), None)

\* ---- RecordTaxLotStep
\* RecordTaxLotStep.execute, "Find matching replacement for each sale": the
\* purchases whose original_asset is the asset sold; the first one is taken
JoinedPurchases(sell, position, sells, replacement_purchases) ==
    SelectSeq(replacement_purchases, LAMBDA purchase : purchase.original_asset = sell.asset)

TaxRecord(sell, position, sells, replacement_purchases, ts) ==
    LET record == ("record_id" :> <<"TAX", ts, sell.lot_id>>) @@
                  ("type" :> "loss_harvest") @@
                  ("asset_sold" :> sell.asset) @@
                  ("lot_id" :> sell.lot_id) @@
                  ("proceeds" :> sell.proceeds) @@
                  ("realized_loss" :> sell.realized_loss) @@
                  ("status" :> "recorded")
        joined == JoinedPurchases(sell, position, sells, replacement_purchases)
    IN IF joined # <<>>
       THEN Put(Put(record, "replacement_asset", joined[1].asset),
                "replacement_cost", joined[1].amount)
       ELSE record

RecordTaxLot_execute(c, now) ==
    LET executed_sells == Get(c, "tlh_executed_sells", <<>>)
        replacement_purchases == Get(c, "tlh_replacement_purchases", <<>>)
        tax_records == [n \in 1 .. Len(executed_sells) |->
                           TaxRecord(executed_sells[n], n, executed_sells,
                                     replacement_purchases, Timestamp(now, n))]
        summary == [total_losses_harvested |-> Get(c, "tlh_harvested_losses", 0),
                    total_reinvested |-> Get(c, "tlh_total_reinvested", 0),
                    positions_harvested |-> Len(executed_sells),
                    replacements_purchased |-> Len(replacement_purchases)]
    IN Outcome(Put(Put(Put(c, "tlh_tax_records", tax_records),
                       "tlh_completed", PyTrue),
                   "tlh_summary", summary),
               now + Len(executed_sells), None)

RecordTaxLot_compensate(c, now) ==
    LET tax_records == Get(c, "tlh_tax_records", <<>>)
        reverted == [n \in 1 .. Len(tax_records) |->
                        Put(Put(tax_records[n], "status", "reverted"),
                            "revert_time", Timestamp(now, n))]
    IN Outcome(Put(Put(c, "tlh_tax_records", reverted), "tlh_completed", PyFalse),
               now + Len(tax_records), None)

\* ---- TaxLossHarvestingSaga
\* TaxLossHarvestingSaga.__init__: the five steps; PurchaseReplacement is the pivot
TlhSteps == <<"IdentifyLosses", "CheckWashSale", "SellLossPositions",
              "PurchaseReplacement", "RecordTaxLot">>

\* mutant: the pivot is SellLossPositions
TlhIsPivotSell(idx) == idx = 2

TlhIsPivot(idx) == idx = 3

tlh_execute(idx, c, now) ==
    CASE idx = 0 -> IdentifyLosses_execute(c, now)
      [] idx = 1 -> CheckWashSale_execute(c, now)
      [] idx = 2 -> SellLossPositions_execute(c, now)
      [] idx = 3 -> PurchaseReplacement_execute(c, now)
      [] idx = 4 -> RecordTaxLot_execute(c, now)

tlh_compensate(idx, c, now) ==
    CASE idx = 0 -> IdentifyLosses_compensate(c, now)
      [] idx = 1 -> CheckWashSale_compensate(c, now)
      [] idx = 2 -> SellLossPositions_compensate(c, now)
      [] idx = 3 -> PurchaseReplacement_compensate(c, now)
      [] idx = 4 -> RecordTaxLot_compensate(c, now)

TlhStepCall(op, idx, before, after) ==
    [op |-> op, step |-> TlhSteps[idx + 1], before |-> before, after |-> after]

\* TaxLossHarvestingSaga.run -> SagaOrchestrator.run, up to the forward loop
TlhCall ==
    /\ tlh_pc = "idle"
    /\ tlh_ctx' \in TlhCtxs
    /\ tlh_pc' = "forward"
    /\ UNCHANGED <<engine, identity, instances, id_calls, rebalance, tlh_now, tlh_i, tlh_result, tlh_calls>>

\* run, the try branch after step.execute returned: the step is listed as
\* executed; after the last step the run returns SUCCESS
TlhStepDone(done) ==
    /\ tlh_ctx' = done
    /\ IF tlh_i + 1 >= Len(TlhSteps)
       THEN /\ tlh_pc' = "returned"
            /\ tlh_result' = RebResult("SUCCESS", done)
            /\ UNCHANGED tlh_i
       ELSE /\ tlh_i' = tlh_i + 1
            /\ UNCHANGED <<tlh_pc, tlh_result>>

\* run, the except branch: the error is recorded and the rollback starts
TlhStepFailed(failed) ==
    /\ tlh_ctx' = failed
    /\ IF RollbackFirst(tlh_i) >= 0
       THEN /\ tlh_pc' = "rollback"
            /\ tlh_i' = RollbackFirst(tlh_i)
            /\ UNCHANGED tlh_result
       ELSE /\ tlh_pc' = "returned"
            /\ tlh_result' = RebResult(final_status, failed)
            /\ UNCHANGED tlh_i

\* what run does with the outcome of step.execute
TlhExecuted(out) ==
    /\ tlh_calls' = Append(tlh_calls, TlhStepCall("execute", tlh_i, tlh_ctx, out.ctx))
    /\ tlh_now' = out.now
    /\ IF out.error = None
       THEN TlhStepDone(Put(out.ctx, "executed_steps",
                            Append(out.ctx["executed_steps"], TlhSteps[tlh_i + 1])))
       ELSE TlhStepFailed(Put(out.ctx, "error", out.error))

\* one iteration of the forward loop of run over the five steps
TlhExecute ==
    /\ tlh_pc = "forward"
    /\ TlhExecuted(tlh_execute(tlh_i, tlh_ctx, tlh_now))
    /\ UNCHANGED <<engine, identity, instances, id_calls, rebalance>>

\* what _rollback does with the outcome of step.compensate
TlhCompensated(out) ==
    /\ tlh_calls' = Append(tlh_calls, TlhStepCall("compensate", tlh_i, tlh_ctx, out.ctx))
    /\ tlh_ctx' = out.ctx
    /\ tlh_now' = out.now
    /\ IF RollbackNext(tlh_i) >= 0
       THEN /\ tlh_i' = RollbackNext(tlh_i)
            /\ UNCHANGED <<tlh_pc, tlh_result>>
       ELSE /\ tlh_pc' = "returned"
            /\ tlh_result' = RebResult(final_status, out.ctx)
            /\ UNCHANGED tlh_i

\* one iteration of the walk of _rollback over the five steps
TlhCompensate ==
    /\ tlh_pc = "rollback"
    /\ IF TlhIsPivot(tlh_i)
       THEN /\ tlh_pc' = "returned"
            /\ tlh_result' = RebResult(final_status, tlh_ctx)
            /\ UNCHANGED <<tlh_ctx, tlh_i, tlh_now, tlh_calls>>
       ELSE TlhCompensated(tlh_compensate(tlh_i, tlh_ctx, tlh_now))
    /\ UNCHANGED <<engine, identity, instances, id_calls, rebalance>>

NextHarvesting ==
    \/ TlhCall
    \/ TlhExecute
    \/ TlhCompensate

SpecHarvesting == InitThreads /\ [][NextHarvesting]_vars

\* C20: every replacement PurchaseReplacement buys is not substantially
\* identical to the asset it replaces.
C20_ReplacementNotIdentical ==
    "tlh_replacement_purchases" \in DOMAIN tlh_ctx =>
        \A n \in 1 .. Len(tlh_ctx["tlh_replacement_purchases"]) :
            ~is_substantially_identical(tlh_ctx["tlh_replacement_purchases"][n].original_asset,
                                        tlh_ctx["tlh_replacement_purchases"][n].asset)

\* ------------------------------------------------------------ harvesting claims
TlhCallsOf(op, step) ==
    SelectSeq(tlh_calls, LAMBDA call : call.op = op /\ call.step = step)
TlhCallNames(op) ==
    LET calls == SelectSeq(tlh_calls, LAMBDA call : call.op = op)
    IN [n \in 1 .. Len(calls) |-> calls[n].step]
LotIds(lots) == {lots[n]["lot_id"] : n \in 1 .. Len(lots)}

\* a BUY of a substantially identical asset dated at most 30 days (60 half
\* days) before or after the current date
BuyWithin30Days(asset, history) ==
    \E txn \in Range(history) :
        /\ Upper(txn.action) = "BUY"
        /\ Abs(current_date - txn.date) <= 30 * 2
        /\ is_substantially_identical(asset, txn.asset)

\* C21: CheckWashSale puts every lot of tlh_opportunities in exactly one of
\* tlh_wash_sale_violations and tlh_valid_opportunities; a lot is a violation
\* if and only if the history has a BUY of a substantially identical asset
\* dated at most 30 days before or after now.
C21_WashSalePartition ==
    \A n \in 1 .. Len(tlh_calls) :
        (tlh_calls[n].op = "execute" /\ tlh_calls[n].step = "CheckWashSale") =>
            LET opportunities == tlh_calls[n].before["tlh_opportunities"]
                history == tlh_calls[n].before["transaction_history"]
                violations == tlh_calls[n].after["tlh_wash_sale_violations"]
                valid == tlh_calls[n].after["tlh_valid_opportunities"]
            IN /\ Len(violations) + Len(valid) = Len(opportunities)
               /\ \A k \in 1 .. Len(opportunities) :
                     LET id == opportunities[k]["lot_id"]
                     IN /\ (id \in LotIds(violations)) # (id \in LotIds(valid))
                        /\ (id \in LotIds(violations))
                              <=> BuyWithin30Days(opportunities[k]["asset"], history)

NoValidLots == "No valid tax-loss harvesting opportunities after wash sale check."
CheckWashSaleRan == TlhCallsOf("execute", "CheckWashSale") # <<>>
ValidAfterCheck == TlhCallsOf("execute", "CheckWashSale")[1].after["tlh_valid_opportunities"]
ViolationsAfterCheck ==
    TlhCallsOf("execute", "CheckWashSale")[1].after["tlh_wash_sale_violations"]

\* C22: CheckWashSale fails if and only if no lot is valid after filtering;
\* the saga then returns ROLLED_BACK with only IdentifyLosses compensated and
\* no sell executed; with at least one valid lot the step succeeds, also when
\* other lots are violations.
C22_FailsIffNoValidLot ==
    CheckWashSaleRan =>
        /\ (tlh_ctx["error"] = NoValidLots) <=> (ValidAfterCheck = <<>>)
        /\ ValidAfterCheck # <<>> => "CheckWashSale" \in Range(tlh_ctx["executed_steps"])
        /\ ValidAfterCheck = <<>> =>
              /\ "CheckWashSale" \notin Range(tlh_ctx["executed_steps"])
              /\ TlhCallsOf("execute", "SellLossPositions") = <<>>
              /\ Get(tlh_ctx, "tlh_executed_sells", <<>>) = <<>>
              /\ tlh_pc = "returned" =>
                    /\ tlh_result.status = "ROLLED_BACK"
                    /\ tlh_result.error = NoValidLots
                    /\ TlhCallNames("compensate") = <<"IdentifyLosses">>

\* a run that found no valid lot has returned
C22_Witness ==
    /\ tlh_pc = "returned"
    /\ CheckWashSaleRan
    /\ ValidAfterCheck = <<>>
    /\ tlh_result.status = "ROLLED_BACK"

\* a run with one violation and one valid lot went past CheckWashSale
C22_WitnessMixed ==
    /\ CheckWashSaleRan
    /\ ValidAfterCheck # <<>>
    /\ ViolationsAfterCheck # <<>>
    /\ TlhCallsOf("execute", "SellLossPositions") # <<>>

LotIdSeq(lots) == [n \in 1 .. Len(lots) |-> lots[n]["lot_id"]]

\* C23: SellLossPositions places one sell for every lot of
\* tlh_valid_opportunities and none for a lot of tlh_wash_sale_violations,
\* tlh_harvested_losses is the sum of the absolute losses of the sold lots;
\* its compensate creates one buyback per executed sell and resets
\* tlh_executed_sells to empty and tlh_harvested_losses to 0.
C23_SellsValidLotsOnly ==
    \A n \in 1 .. Len(tlh_calls) :
        LET before == tlh_calls[n].before
            after == tlh_calls[n].after
        IN /\ (tlh_calls[n].op = "execute" /\ tlh_calls[n].step = "SellLossPositions") =>
                 /\ LotIdSeq(after["tlh_executed_sells"])
                       = LotIdSeq(before["tlh_valid_opportunities"])
                 /\ LotIds(after["tlh_executed_sells"])
                       \cap LotIds(before["tlh_wash_sale_violations"]) = {}
                 /\ after["tlh_harvested_losses"]
                       = SumOf([k \in 1 .. Len(before["tlh_valid_opportunities"]) |->
                                  Abs(before["tlh_valid_opportunities"][k]["unrealized_gain_loss"])])
           /\ (tlh_calls[n].op = "compensate" /\ tlh_calls[n].step = "SellLossPositions") =>
                 /\ Len(after["tlh_buyback_orders"]) = Len(before["tlh_executed_sells"])
                 /\ \A k \in 1 .. Len(before["tlh_executed_sells"]) :
                       /\ after["tlh_buyback_orders"][k].asset
                             = before["tlh_executed_sells"][k].asset
                       /\ after["tlh_buyback_orders"][k].compensation_for
                             = before["tlh_executed_sells"][k].order_id
                 /\ after["tlh_executed_sells"] = <<>>
                 /\ after["tlh_harvested_losses"] = 0

\* a run with a violation and a valid lot sold the valid lot and bought it back
C23_Witness ==
    /\ TlhCallsOf("compensate", "SellLossPositions") # <<>>
    /\ TlhCallsOf("compensate", "SellLossPositions")[1].before["tlh_executed_sells"] # <<>>
    /\ TlhCallsOf("execute", "SellLossPositions")[1].before["tlh_wash_sale_violations"] # <<>>

PurchaseSucceeded(call) ==
    /\ call.op = "execute"
    /\ call.step = "PurchaseReplacement"
    /\ "tlh_replacement_purchases" \in DOMAIN call.after
AmountsOf(entries) == [n \in 1 .. Len(entries) |-> entries[n].amount]
\* the entries of a list recorded for one asset with one amount
EntriesFor(entries, asset, amount) ==
    Len(SelectSeq(entries, LAMBDA e : e.original_asset = asset /\ e.amount = amount))

\* C24: PurchaseReplacement accounts for the proceeds of every executed sell
\* exactly once, as one replacement purchase or as one tlh_kept_as_cash entry
\* of that amount, so tlh_total_reinvested plus the amounts kept as cash is
\* tlh_available_for_reinvestment and tlh_remaining_cash is the amount kept.
C24_ProceedsAccountedOnce ==
    \A n \in 1 .. Len(tlh_calls) :
        PurchaseSucceeded(tlh_calls[n]) =>
            LET sells == tlh_calls[n].before["tlh_executed_sells"]
                purchases == tlh_calls[n].after["tlh_replacement_purchases"]
                kept == Get(tlh_calls[n].after, "tlh_kept_as_cash", <<>>)
            IN /\ Len(purchases) + Len(kept) = Len(sells)
               /\ \A k \in 1 .. Len(sells) :
                     /\ EntriesFor(purchases, sells[k].asset, sells[k].proceeds)
                           + EntriesFor(kept, sells[k].asset, sells[k].proceeds)
                        = Len(SelectSeq(sells, LAMBDA sell :
                                  sell.asset = sells[k].asset /\ sell.proceeds = sells[k].proceeds))
                     /\ ~ /\ \E j \in 1 .. Len(purchases) :
                                purchases[j].original_asset = sells[k].asset
                          /\ \E j \in 1 .. Len(kept) : kept[j].original_asset = sells[k].asset
               /\ tlh_calls[n].after["tlh_total_reinvested"] + SumOf(AmountsOf(kept))
                     = tlh_calls[n].before["tlh_available_for_reinvestment"]
               /\ tlh_calls[n].after["tlh_remaining_cash"] = SumOf(AmountsOf(kept))

\* one sold lot was replaced and another was kept as cash
C24_Witness ==
    \E n \in 1 .. Len(tlh_calls) :
        /\ PurchaseSucceeded(tlh_calls[n])
        /\ tlh_calls[n].after["tlh_replacement_purchases"] # <<>>
        /\ Get(tlh_calls[n].after, "tlh_kept_as_cash", <<>>) # <<>>

RecordRan(call) == call.op = "execute" /\ call.step = "RecordTaxLot"

\* C25: RecordTaxLot emits one tax record per executed sell, in order, and a
\* record that has a replacement carries the replacement bought for that same
\* lot: its replacement_cost is that lot's own proceeds, also when several
\* sold lots share one asset.
C25_RecordJoinsOwnReplacement ==
    \A n \in 1 .. Len(tlh_calls) :
        RecordRan(tlh_calls[n]) =>
            LET sells == tlh_calls[n].before["tlh_executed_sells"]
                records == tlh_calls[n].after["tlh_tax_records"]
            IN /\ Len(records) = Len(sells)
               /\ \A k \in 1 .. Len(sells) :
                     /\ records[k]["lot_id"] = sells[k].lot_id
                     /\ records[k]["asset_sold"] = sells[k].asset
                     /\ "replacement_cost" \in DOMAIN records[k] =>
                           records[k]["replacement_cost"] = sells[k].proceeds

IdentifyRan(call) == call.op = "execute" /\ call.step = "IdentifyLosses"
\* how many times a lot occurs in a list
Occurrences(lot, lots) == Len(SelectSeq(lots, LAMBDA x : x = lot))

C26_WitnessThreshold ==
    \E n \in 1 .. Len(tlh_calls) :
        /\ IdentifyRan(tlh_calls[n])
        /\ \E k \in 1 .. Len(tlh_calls[n].before["tax_lots"]) :
              tlh_calls[n].before["tax_lots"][k]["unrealized_gain_loss"] = -min_loss_threshold

\* ------------------------------------------------------------ is_substantially_identical
\* the tickers compared: every ticker of FUND_FAMILY_MAPPING and two tickers
\* the table does not have
UnknownTickers == {"XYZ", "BTC"}
Tickers == DOMAIN FUND_FAMILY_MAPPING \cup UnknownTickers

\* one comparison: is_substantially_identical called on every pair of three
\* tickers
CompareTickers ==
    /\ compared = <<>>
    /\ \E asset1 \in Tickers, asset2 \in Tickers, asset3 \in Tickers :
          compared' =
              [assets |-> <<asset1, asset2, asset3>>,
               identical |-> [m \in 1 .. 3 |-> [n \in 1 .. 3 |->
                   is_substantially_identical(<<asset1, asset2, asset3>>[m],
                                              <<asset1, asset2, asset3>>[n])]]]
    /\ UNCHANGED <<engine, id_calls, rebalance, harvesting, instances>>

NextIdentical == CompareTickers

SpecIdentical == InitThreads /\ [][NextIdentical]_vars

SameFamily(asset1, asset2) ==
    /\ asset1 \in DOMAIN FUND_FAMILY_MAPPING
    /\ asset2 \in DOMAIN FUND_FAMILY_MAPPING
    /\ FUND_FAMILY_MAPPING[asset1].family = FUND_FAMILY_MAPPING[asset2].family

\* C27: is_substantially_identical is an equivalence relation on tickers:
\* reflexive (also for tickers absent from the table), symmetric and
\* transitive; two distinct tickers are identical if and only if both are in
\* FUND_FAMILY_MAPPING with the same family, so an unknown ticker is identical
\* only to itself.
C27_IdenticalIsEquivalence ==
    compared # <<>> =>
        /\ \A m \in 1 .. 3 : compared.identical[m][m]
        /\ \A m, n \in 1 .. 3 : compared.identical[m][n] <=> compared.identical[n][m]
        /\ \A m, n, k \in 1 .. 3 :
              (compared.identical[m][n] /\ compared.identical[n][k])
                 => compared.identical[m][k]
        /\ \A m, n \in 1 .. 3 :
              compared.assets[m] # compared.assets[n] =>
                 (compared.identical[m][n]
                     <=> SameFamily(compared.assets[m], compared.assets[n]))
        /\ \A m, n \in 1 .. 3 :
              compared.assets[m] \in UnknownTickers =>
                 (compared.identical[m][n] <=> compared.assets[m] = compared.assets[n])

\* three distinct tickers of one family, found identical pairwise
C27_Witness ==
    /\ compared # <<>>
    /\ compared.assets = <<"VTI", "VTSAX", "ITOT">>
    /\ \A m, n \in 1 .. 3 : compared.identical[m][n]

\* an unknown ticker compared with itself and with a known ticker
C27_WitnessUnknown ==
    /\ compared # <<>>
    /\ compared.assets = <<"XYZ", "XYZ", "VTI">>
    /\ compared.identical[1][2]
    /\ ~compared.identical[1][3]

\* ------------------------------------------------------------ harvesting rollback
ReplacementFailure == "Simulated failure: Unable to purchase replacement securities"
FailureRequested ==
    /\ tlh_ctx # <<>>
    /\ Truthy(Get(tlh_ctx, "simulate_replacement_failure", None))

\* C28: a TaxLossHarvestingSaga run with simulate_replacement_failure set and
\* at least one valid lot returns ROLLED_BACK with the simulated-failure
\* message; SellLossPositions, CheckWashSale and IdentifyLosses are
\* compensated in that order, tlh_executed_sells ends empty, no replacement is
\* purchased and no tax record is written.
C28_ReplacementFailureRollsBack ==
    (/\ tlh_pc = "returned"
     /\ FailureRequested
     /\ CheckWashSaleRan
     /\ ValidAfterCheck # <<>>) =>
        /\ tlh_result.status = "ROLLED_BACK"
        /\ tlh_result.error = ReplacementFailure
        /\ TlhCallNames("compensate") = <<"SellLossPositions", "CheckWashSale", "IdentifyLosses">>
        /\ tlh_ctx["tlh_executed_sells"] = <<>>
        /\ "tlh_replacement_purchases" \notin DOMAIN tlh_ctx
        /\ "tlh_tax_records" \notin DOMAIN tlh_ctx
        /\ TlhCallsOf("execute", "RecordTaxLot") = <<>>

\* such a run returned after selling two lots and buying them back
C28_Witness ==
    /\ tlh_pc = "returned"
    /\ FailureRequested
    /\ tlh_result.status = "ROLLED_BACK"
    /\ Len(Get(tlh_ctx, "tlh_buyback_orders", <<>>)) = 2

\* ------------------------------------------------------------ orchestrator instances
\* src/backend/main.py, execute_rebalance: the context of a request
OrchCtxs ==
    [transaction_id : {""}, portfolio_data : {PortfolioOf(1), PortfolioOf(2)},
     proposed_trades : {<<>>}]

\* SagaOrchestrator.__init__ (RebalanceSaga() of a request):
\* self._idempotency_store = {}
NewOrchestrator ==
    /\ Len(orchestrators) < MaxOrchestrators
    /\ orchestrators' = Append(orchestrators, <<>>)
    /\ UNCHANGED <<engine, id_calls, rebalance, harvesting, identity, orch_runs>>

OrchRun(k, id, duplicate, status) ==
    [orchestrator |-> k, transaction_id |-> id, duplicate |-> duplicate, status |-> status]

\* SagaOrchestrator.run on instance k, from the call to the return: the
\* duplicate check reads the store of that instance; a run that gets past it
\* executes the steps and records the status it returns
OrchestratorRun ==
    /\ Len(orch_runs) < MaxRuns
    /\ \E k \in 1 .. Len(orchestrators), c \in OrchCtxs, raised \in BOOLEAN :
          LET id == generate_transaction_id(c)
              status == IF raised THEN final_status ELSE "SUCCESS"
          IN IF id \in DOMAIN orchestrators[k]
             THEN /\ orch_runs' = Append(orch_runs, OrchRun(k, id, TRUE, orchestrators[k][id]))
                  /\ UNCHANGED orchestrators
             ELSE /\ orchestrators' = [orchestrators EXCEPT ![k] = Put(@, id, status)]
                  /\ orch_runs' = Append(orch_runs, OrchRun(k, id, FALSE, status))
    /\ UNCHANGED <<engine, id_calls, rebalance, harvesting, identity>>

NextInstances ==
    \/ NewOrchestrator
    \/ OrchestratorRun

SpecInstances == InitThreads /\ [][NextInstances]_vars

\* C29: the idempotency record is process-wide: once a transaction id has
\* been run through one SagaOrchestrator instance, a run of that id on any
\* instance of the process is treated as a duplicate, so the steps execute
\* once in total.
C29_DuplicateAcrossInstances ==
    \A m, n \in 1 .. Len(orch_runs) :
        (m < n /\ orch_runs[m].transaction_id = orch_runs[n].transaction_id)
            => orch_runs[n].duplicate

\* ------------------------------------------------------------ status path
\* C30: during a failed run the status recorded for the transaction id moves
\* EXECUTING -> ROLLING_BACK while compensations run and then ROLLING_BACK ->
\* ROLLED_BACK, never from EXECUTING to ROLLED_BACK directly; a successful
\* run moves EXECUTING -> SUCCESS.
C30_StatusPath ==
    [][\A id \in TxIds :
          store'[id] # store[id] =>
              /\ store'[id] = "ROLLED_BACK" => store[id] = "ROLLING_BACK"
              /\ store'[id] = "ROLLING_BACK" => store[id] = "EXECUTING"
              /\ store'[id] = "SUCCESS" => store[id] = "EXECUTING"]_vars

\* ------------------------------------------------------------ the log of a run
\* the entries of a log that precede the ROLLBACK_START marker
ForwardLog(ls) ==
    SelectSeq([n \in 1 .. Len(ls) |->
                  [entry |-> ls[n],
                   forward |-> \A m \in 1 .. n : ls[m].step_name # "ROLLBACK_START"]],
              LAMBDA x : x.forward)
ForwardEntries(ls) == [n \in 1 .. Len(ForwardLog(ls)) |-> ForwardLog(ls)[n].entry]
AfterForwardPass(t) == pc[t] \in {"after_loop", "rollback_walk", "rollback_complete"}

\* one entry per attempted step, in step order, SUCCESS except possibly the
\* last, which is FAILED
OnePerAttempt(fw, ex) ==
    /\ Len(fw) = Len(ex)
    /\ \A n \in 1 .. Len(fw) :
          /\ ex[n].step = n - 1
          /\ fw[n].step_name = StepName(n - 1)
          /\ fw[n].status \in {"SUCCESS", "FAILED"}
          /\ n < Len(fw) => fw[n].status = "SUCCESS"

\* the change of a log is an append after entries that are not RUNNING, the
\* replacement of a RUNNING last entry, or the start of a new call
LogStep(old, new) ==
    \/ new = old
    \/ new = <<>>
    \/ /\ Len(new) = Len(old) + 1
       /\ SubSeq(new, 1, Len(old)) = old
       /\ \A n \in 1 .. Len(old) : old[n].status # "RUNNING"
    \/ /\ Len(new) = Len(old)
       /\ Len(old) > 0
       /\ SubSeq(new, 1, Len(old) - 1) = SubSeq(old, 1, Len(old) - 1)
       /\ old[Len(old)].status = "RUNNING"
       /\ new[Len(new)].status # "RUNNING"

\* C31: after the forward pass the log holds exactly one entry per attempted
\* step, in step order, each SUCCESS except possibly the last, which is
\* FAILED; a RUNNING entry is replaced before the next entry is appended,
\* earlier entries are never modified, and no returned SagaResult holds an
\* entry with status RUNNING or PENDING.
C31_OneEntryPerAttempt ==
    /\ [](\A t \in Threads :
            /\ AfterForwardPass(t) => OnePerAttempt(logs[t], ExecOf(t))
            /\ Ran(t) => OnePerAttempt(ForwardEntries(result[t].logs), ExecOf(t))
            /\ Returned(t) =>
                  \A n \in 1 .. Len(result[t].logs) :
                      result[t].logs[n].status \notin {"RUNNING", "PENDING"})
    /\ [][\A t \in Threads : LogStep(logs[t], logs'[t])]_vars

\* a run that failed at its third step returned a log of three forward entries
C31_Witness ==
    /\ Ran(Caller) /\ FailedAtStep(Caller, 2)
    /\ Len(ForwardEntries(result[Caller].logs)) = 3
    /\ ForwardEntries(result[Caller].logs)[3].status = "FAILED"

\* the entries of a log from the ROLLBACK_START marker on
RollbackEntries(ls) == SubSeq(ls, Len(ForwardEntries(ls)) + 1, Len(ls))
\* the steps the walk of _rollback visits after a failure at step k, in
\* order: k-1 down to the highest pivot below k, or down to 0
Visited(k) ==
    IF k = 0 THEN <<>>
    ELSE IF PivotBelow(k) THEN Down(k - 1, HighestPivotBelow(k))
    ELSE Down(k - 1, 0)
HasMarker(ls) ==
    \E n \in 1 .. Len(ls) : ls[n].step_name \in {"ROLLBACK_START", "ROLLBACK_COMPLETE"}

\* C32: in a ROLLED_BACK result the logs are the forward entries, then
\* ROLLBACK_START, then one entry per step visited by the walk in reverse step
\* order (COMPENSATED, FAILED, or SKIPPED for a pivot, with no step entry
\* after a SKIPPED one), then ROLLBACK_COMPLETE as the last entry; a SUCCESS
\* result contains neither marker.
C32_RollbackLogBracketed ==
    \A t \in Threads :
        /\ (Ran(t) /\ result[t].status = "SUCCESS") => ~HasMarker(result[t].logs)
        /\ (Ran(t) /\ result[t].status = "ROLLED_BACK") =>
              LET ls == result[t].logs
                  rb == RollbackEntries(ls)
                  walk == SubSeq(rb, 2, Len(rb) - 1)
              IN /\ ls = ForwardEntries(ls) \o rb
                 /\ Len(rb) >= 2
                 /\ rb[1].step_name = "ROLLBACK_START"
                 /\ rb[Len(rb)].step_name = "ROLLBACK_COMPLETE"
                 /\ ls[Len(ls)].step_name = "ROLLBACK_COMPLETE"
                 /\ \A k \in FailedSteps(t) :
                       /\ Len(walk) = Len(Visited(k))
                       /\ \A n \in 1 .. Len(walk) :
                             /\ walk[n].step_name = StepName(Visited(k)[n])
                             /\ walk[n].status \in {"COMPENSATED", "FAILED", "SKIPPED"}
                             /\ walk[n].status = "SKIPPED" <=> is_pivot[Visited(k)[n]]
                             /\ walk[n].status = "SKIPPED" => n = Len(walk)

\* a rollback that compensated one step and stopped at a pivot
C32_Witness ==
    /\ Ran(Caller) /\ FailedAtStep(Caller, 3) /\ is_pivot[1] /\ ~is_pivot[2]
    /\ Len(RollbackEntries(result[Caller].logs)) = 4
    /\ RollbackEntries(result[Caller].logs)[3].status = "SKIPPED"

\* ------------------------------------------------------------ compensation
\* C33: compensate is invoked at most once per step per run, only during
\* rollback, and only on a step whose execute returned successfully earlier
\* in the same run; never on the failing step, on a step after it, or in a
\* run that ends SUCCESS.
C33_CompensateOnlyExecuted ==
    \A t \in Threads :
        LET ev == events[t] IN
        /\ NoRepeat(StepsOf(CompOf(t)))
        /\ \A n \in 1 .. Len(ev) :
              IsCompensate(ev[n]) =>
                 /\ pc[t] \in {"rollback_walk", "rollback_complete", "returned"}
                 /\ \E m \in 1 .. (n - 1) :
                       ev[m] = Event("execute", ev[n].step, "ok")
                 /\ \E m \in 1 .. (n - 1) : IsExecute(ev[m]) /\ ev[m].arg # "ok"
                 /\ \A m \in (n + 1) .. Len(ev) : ~IsExecute(ev[m])
                 /\ \A k \in FailedSteps(t) : ev[n].step < k
        /\ (Ran(t) /\ result[t].status = "SUCCESS") => CompOf(t) = <<>>

\* a run that failed at its third step compensated the two steps before it
C33_Witness ==
    /\ Ran(Caller) /\ FailedAtStep(Caller, 2)
    /\ StepsOf(CompOf(Caller)) = <<1, 0>>
    /\ Len(ExecOf(Caller)) = 3

\* ------------------------------------------------------------ executed_steps
\* contexts a caller hands over with tracking keys already filled, as a
\* context that went through an earlier run has them
StaleCtxs ==
    {[c EXCEPT !.executed_steps = <<StepName(0), StepName(1)>>,
               !.logs = <<StepLog(StepName(0), "SUCCESS", None)>>] : c \in FreshCtxs}

\* run called with such a context, up to the idempotency check
CallStale(t) ==
    /\ UNCHANGED others
    /\ pc[t] \in {"idle", "returned"}
    /\ \E c \in StaleCtxs :
         LET id == IF c.transaction_id = "" THEN generate_transaction_id(c)
                   ELSE c.transaction_id
         IN /\ ctx' = [ctx EXCEPT ![t] = [c EXCEPT !.transaction_id = id]]
            /\ transaction_id' = [transaction_id EXCEPT ![t] = id]
    /\ ResetLocals(t)
    /\ result' = [result EXCEPT ![t] = NoResult]
    /\ events' = [events EXCEPT ![t] = <<>>]
    /\ pc' = [pc EXCEPT ![t] = "is_duplicate"]
    /\ UNCHANGED <<config, store, passes, returned_status>>

NextReuse ==
    \/ Step(Caller)
    \/ CallStale(Caller)

\* one caller, one step list (a pivot at index 1, both callbacks registered),
\* contexts with and without stale tracking keys
SpecReuse == InitThreads /\ [][NextReuse]_vars

ExecutedOk(t) == NamesOfSteps(SelectSeq(ExecOf(t), LAMBDA e : e.arg = "ok"))

\* C34: at every point of a non-duplicate run the context's executed_steps is
\* the list of names of the steps whose execute has returned successfully so
\* far, in order (it is reset to empty at run start whatever the caller
\* passed); after a failure at step k it is the names of steps 0..k-1, and
\* rollback does not remove compensated steps from it.
C34_ExecutedStepsTracksExecutes ==
    \A t \in Threads :
        /\ pc[t] = "mark_executing" => ctx[t].executed_steps = <<>>
        /\ (PastCheck(t) \/ Ran(t)) =>
              /\ ctx[t].executed_steps = ExecutedOk(t)
              /\ \A k \in FailedSteps(t) :
                    ctx[t].executed_steps = [n \in 1 .. k |-> StepName(n - 1)]
        /\ Ran(t) => result[t].executed_steps = ExecutedOk(t)

\* a run given a stale executed_steps failed at its third step, compensated
\* the first two and still lists them as executed
C34_Witness ==
    /\ Ran(Caller) /\ FailedAtStep(Caller, 3) /\ ~is_pivot[2]
    /\ CompOf(Caller) # <<>>
    /\ result[Caller].executed_steps = <<StepName(0), StepName(1), StepName(2)>>
    /\ ctx[Caller].logs = <<>>

\* ------------------------------------------------------------ read-only steps
ReadOnlySteps == {"IdentifyLosses", "CheckWashSale", "ValidateMarket"}
IsReadOnlyCompensate(call) == call.op = "compensate" /\ call.step \in ReadOnlySteps

\* two contexts hold the same keys with the same values (the values are
\* compared in print, as a list and None are of different kinds)
SameContext(a, b) ==
    /\ DOMAIN a = DOMAIN b
    /\ \A k \in DOMAIN a : ToString(a[k]) = ToString(b[k])

\* C35: the compensate operations of the read-only steps (IdentifyLosses,
\* CheckWashSale, and Rebalance's ValidateMarket) are no-ops: invoking them
\* leaves the context unchanged.
C35_ReadOnlyCompensateNoOp ==
    /\ \A n \in 1 .. Len(tlh_calls) :
          IsReadOnlyCompensate(tlh_calls[n])
              => SameContext(tlh_calls[n].before, tlh_calls[n].after)
    /\ \A n \in 1 .. Len(rb_calls) :
          IsReadOnlyCompensate(rb_calls[n])
              => SameContext(rb_calls[n].before, rb_calls[n].after)

\* ------------------------------------------------------------ raising callbacks
\* The callbacks are the caller's code and may raise; a step may return None
\* instead of the context.  run has no handler around on_step_start, around
\* the on_step_complete call of its except branch, or around ctx["error"] = ...
\* in that branch, so an exception raised there leaves run.

\* str(e) of an exception raised by a callback
CallbackMsg == "callback raised"

\* an exception leaves run: nothing is returned, the locals are gone and the
\* idempotency store is as "Mark as executing" left it
Escapes(t) ==
    /\ pc' = [pc EXCEPT ![t] = "escaped"]
    /\ ResetLocals(t)

\* loop body before the try: on_step_start raises
StepStartRaises(t) ==
    /\ UNCHANGED others
    /\ pc[t] = "step_start"
    /\ on_step_start
    /\ events' = [events EXCEPT ![t] =
                    Append(@, Event("on_step_start", i[t], StartArgs(i[t])))]
    /\ Escapes(t)
    /\ UNCHANGED <<config, store, ctx, transaction_id, result, passes, returned_status>>

\* the try branch: execute returned, the step is listed as executed, the
\* entry is SUCCESS, then on_step_complete(name, SUCCESS) raises; the except
\* branch rewrites the entry as FAILED and calls on_step_complete(name,
\* FAILED), which returns (the step becomes the failed step) or raises
ExecuteCallbackRaises(t) ==
    /\ UNCHANGED others
    /\ pc[t] = "execute"
    /\ on_step_complete
    /\ events' = [events EXCEPT ![t] =
                    @ \o <<Event("execute", i[t], "ok"),
                           Event("on_step_complete", i[t], "SUCCESS"),
                           Event("on_step_complete", i[t], "FAILED")>>]
    /\ \E handler_raises \in BOOLEAN :
         IF handler_raises
         THEN /\ ctx' = [ctx EXCEPT ![t].executed_steps = Append(@, StepName(i[t]))]
              /\ Escapes(t)
         ELSE /\ ctx' = [ctx EXCEPT ![t].executed_steps = Append(@, StepName(i[t])),
                                    ![t].error = CallbackMsg]
              /\ logs' = [logs EXCEPT ![t] =
                            ReplaceLast(@, StepLog(StepName(i[t]), "FAILED", CallbackMsg))]
              /\ failed_at_index' = [failed_at_index EXCEPT ![t] = i[t]]
              /\ pc' = [pc EXCEPT ![t] = "after_loop"]
              /\ UNCHANGED <<i, rollback_logs>>
    /\ UNCHANGED <<config, store, transaction_id, result, passes, returned_status>>

\* the except branch after execute raised: on_step_complete(name, FAILED)
\* raises before failed_at_index and ctx["error"] are set
FailedCallbackRaises(t) ==
    /\ UNCHANGED others
    /\ pc[t] = "execute"
    /\ on_step_complete
    /\ \E msg \in Msgs :
         events' = [events EXCEPT ![t] =
                      @ \o <<Event("execute", i[t], msg),
                             Event("on_step_complete", i[t], "FAILED")>>]
    /\ Escapes(t)
    /\ UNCHANGED <<config, store, ctx, transaction_id, result, passes, returned_status>>

\* execute returns None: ctx["executed_steps"] raises in the try branch, the
\* except branch rewrites the entry, calls on_step_complete(name, FAILED) and
\* raises at ctx["error"] = str(e)
ExecuteMalformed(t) ==
    /\ UNCHANGED others
    /\ pc[t] = "execute"
    /\ events' = [events EXCEPT ![t] =
                    @ \o <<Event("execute", i[t], None)>>
                      \o Fire(on_step_complete, Event("on_step_complete", i[t], "FAILED"))]
    /\ Escapes(t)
    /\ UNCHANGED <<config, store, ctx, transaction_id, result, passes, returned_status>>

\* _rollback, the try branch: compensate returned, then
\* on_step_complete(name, COMPENSATED) raises; the except branch rewrites
\* the entry as FAILED and the walk goes on
CompensateCallbackRaises(t) ==
    /\ UNCHANGED others
    /\ pc[t] = "rollback_walk"
    /\ ~StopsAtPivot(i[t])
    /\ on_step_complete
    /\ rollback_logs' = [rollback_logs EXCEPT ![t] =
                           Append(@, StepLog(StepName(i[t]), "FAILED", CallbackMsg))]
    /\ events' = [events EXCEPT ![t] =
                    @ \o <<Event("compensate", i[t], "ok"),
                           Event("on_step_complete", i[t], "COMPENSATED")>>]
    /\ i' = [i EXCEPT ![t] = RollbackNext(i[t])]
    /\ pc' = [pc EXCEPT ![t] =
                IF RollbackNext(i[t]) >= 0 THEN "rollback_walk" ELSE "rollback_complete"]
    /\ UNCHANGED <<config, store, ctx, transaction_id, logs,
                   failed_at_index, result, passes, returned_status>>

\* the caller handles the exception that left run and drops the context
DiscardEscaped(t) ==
    /\ UNCHANGED others
    /\ pc[t] = "escaped"
    /\ pc' = [pc EXCEPT ![t] = "idle"]
    /\ ctx' = [ctx EXCEPT ![t] = EmptyCtx]
    /\ transaction_id' = [transaction_id EXCEPT ![t] = None]
    /\ result' = [result EXCEPT ![t] = NoResult]
    /\ events' = [events EXCEPT ![t] = <<>>]
    /\ UNCHANGED <<config, store, logs, i, failed_at_index,
                   rollback_logs, passes, returned_status>>

\* one caller whose callbacks are both registered
InitCallbacks ==
    /\ Init
    /\ on_step_start
    /\ on_step_complete

NextCallbacks ==
    \/ Step(Caller)
    \/ StepStartRaises(Caller)
    \/ ExecuteCallbackRaises(Caller)
    \/ FailedCallbackRaises(Caller)
    \/ ExecuteMalformed(Caller)
    \/ CompensateCallbackRaises(Caller)
    \/ DiscardEscaped(Caller)

SpecCallbacks == InitCallbacks /\ [][NextCallbacks]_vars

\* the steps whose execute returned the context in the call of t
ExecuteReturned(t) == {e.step : e \in {x \in Range(ExecOf(t)) : x.arg = "ok"}}
NoPivotFrom(s) == \A k \in s .. (NumSteps - 1) : ~is_pivot[k]
LoggedSuccess(t, s) ==
    \E n \in 1 .. Len(result[t].logs) :
        result[t].logs[n] = StepLog(StepName(s), "SUCCESS", None)
CompensateInvoked(t, s) ==
    \E n \in 1 .. Len(events[t]) : IsCompensate(events[t][n]) /\ events[t][n].step = s

\* C36: even when an on_step_complete callback raises, a step whose execute
\* returned successfully (and whose name is in executed_steps) is logged
\* SUCCESS in the forward pass and, if the run rolls back and no pivot lies at
\* or after it, has its compensate invoked.
C36_CallbackErrorKeepsCompensation ==
    \A t \in Threads :
        (Ran(t) /\ result[t].status = "ROLLED_BACK") =>
            \A s \in ExecuteReturned(t) :
                /\ LoggedSuccess(t, s)
                /\ NoPivotFrom(s) => CompensateInvoked(t, s)

\* C37: after a run call has ended, by returning or by an exception leaving
\* it (from on_step_start, from a callback, or from the handling of a
\* malformed step result), its transaction id is not left recorded as
\* EXECUTING: no later run with that id gets a duplicate response whose
\* status is EXECUTING.
C37_NoStaleExecuting ==
    \A t \in Threads :
        (Returned(t) /\ IsDuplicateResult(t)) => result[t].status # "EXECUTING"

\* ------------------------------------------------------------ TLH transaction ids
\* execute_tlh: the context of a request; the id is empty, portfolio_data is
\* {} and proposed_trades is [], the request supplies the lots and the history
TlhApiCtxs ==
    {("transaction_id" :> "") @@ ("portfolio_data" :> <<>>) @@ ("proposed_trades" :> <<>>)
        @@ ("executed_steps" :> <<>>) @@ ("logs" :> <<>>) @@ ("error" :> None)
        @@ ("tax_lots" :> lots) @@ ("transaction_history" :> history) :
     lots \in {l \in LotLists(1) : \A n \in 1 .. Len(l) : l[n]["unrealized_gain_loss"] = -3},
     history \in {<<>>, <<[date |-> 60, asset |-> "VTSAX", action |-> "BUY"]>>}}

TlhRun(k, c, id, duplicate, status) ==
    [orchestrator |-> k, transaction_id |-> id, duplicate |-> duplicate, status |-> status,
     tax_lots |-> c["tax_lots"], transaction_history |-> c["transaction_history"]]

\* TaxLossHarvestingSaga.run on instance k: self.orchestrator.run(ctx), from
\* the call to the return; the id is derived from the context, the duplicate
\* check reads the store of the instance's orchestrator
TlhSagaRun ==
    /\ Len(orch_runs) < MaxRuns
    /\ \E k \in 1 .. Len(orchestrators), c \in TlhApiCtxs, raised \in BOOLEAN :
          LET id == generate_transaction_id(c)
              status == IF raised THEN final_status ELSE "SUCCESS"
          IN IF id \in DOMAIN orchestrators[k]
             THEN /\ orch_runs' = Append(orch_runs, TlhRun(k, c, id, TRUE, orchestrators[k][id]))
                  /\ UNCHANGED orchestrators
             ELSE /\ orchestrators' = [orchestrators EXCEPT ![k] = Put(@, id, status)]
                  /\ orch_runs' = Append(orch_runs, TlhRun(k, c, id, FALSE, status))
    /\ UNCHANGED <<engine, id_calls, rebalance, harvesting, identity>>

NextTlhInstances ==
    \/ NewOrchestrator
    \/ TlhSagaRun

SpecTlhInstances == InitThreads /\ [][NextTlhInstances]_vars

\* C38: two runs on one TaxLossHarvestingSaga instance whose contexts differ
\* in tax_lots or transaction_history (transaction_id, portfolio_data and
\* proposed_trades empty) are distinct transactions: the second is executed,
\* not short-circuited as a duplicate of the first.
C38_DistinctLotsDistinctRuns ==
    \A m, n \in 1 .. Len(orch_runs) :
        (/\ m < n
         /\ orch_runs[m].orchestrator = orch_runs[n].orchestrator
         /\ \/ orch_runs[m].tax_lots # orch_runs[n].tax_lots
            \/ orch_runs[m].transaction_history # orch_runs[n].transaction_history)
            => ~orch_runs[n].duplicate

\* ------------------------------------------------------------ rollback callbacks
IsCompensatedComplete(e) == e.op = "on_step_complete" /\ e.arg = "COMPENSATED"
IsCompensateOk(e) == IsCompensate(e) /\ e.arg = "ok"
InRollback(t) == pc[t] \in {"rollback_walk", "rollback_complete"}

\* C39: during rollback on_step_complete(name, COMPENSATED) is invoked exactly
\* for the steps whose compensate returned, in compensation order (right after
\* that compensate); not for a failed compensation, for a skipped pivot or for
\* the ROLLBACK_START / ROLLBACK_COMPLETE markers; and on_step_start is never
\* invoked during rollback.
C39_RollbackCallbacks ==
    /\ [](\A t \in Threads :
            LET ev == events[t] IN
            /\ StepsOf(SelectSeq(ev, IsCompensatedComplete))
                  = IF on_step_complete THEN StepsOf(SelectSeq(ev, IsCompensateOk)) ELSE <<>>
            /\ \A n \in 1 .. Len(ev) :
                  /\ IsCompensatedComplete(ev[n]) =>
                        n > 1 /\ ev[n - 1] = Event("compensate", ev[n].step, "ok")
                  /\ (IsCompensate(ev[n]) /\ ev[n].arg # "ok" /\ n < Len(ev)) =>
                        IsCompensate(ev[n + 1])
                  /\ IsCompensate(ev[n]) => ~is_pivot[ev[n].step]
                  /\ IsStart(ev[n]) => \A m \in 1 .. (n - 1) : ~IsCompensate(ev[m]))
    /\ [][\A t \in Threads :
            InRollback(t) =>
                \A n \in (Len(events[t]) + 1) .. Len(events'[t]) : ~IsStart(events'[t][n])]_vars

\* a rollback over three executed steps without a pivot in which the second
\* compensation failed: COMPENSATED was reported for the other two only
C39_Witness ==
    /\ Ran(Caller) /\ FailedAtStep(Caller, 3)
    /\ on_step_start /\ on_step_complete
    /\ StepsOf(CompOf(Caller)) = <<2, 1, 0>>
    /\ StepsOf(SelectSeq(events[Caller], IsCompensatedComplete)) = <<2, 0>>

\* ------------------------------------------------------------ cash after the buys
\* C40: after a successful Rebalance run remaining_cash (available_cash, the
\* sum of the SELL amounts, minus the sum of the BUY amounts) is never
\* negative: PlaceBuyOrders fails rather than placing buys that cost more
\* than the cash settled from the sells.
C40_RemainingCashNonNegative ==
    (RebReturned /\ rb_result.status = "SUCCESS") => rb_ctx["remaining_cash"] >= 0

====
